---- MODULE Spec2Model ----
(***************************************************************************)
(* A model of the rust-rdbms storage engine: the pager and page layout     *)
(* (storage/pager.rs), the fixed-width row codec (storage/record.rs), the  *)
(* heap table (storage/mod.rs), the primary index (index/mod.rs), the      *)
(* catalog (catalog/mod.rs) and the executor (engine.rs).                  *)
(*                                                                         *)
(* Bytes are naturals 0..255.  A string is the sequence of its UTF-8       *)
(* bytes.  A page is its 4096 bytes, kept as a function from the offsets   *)
(* of its non-zero bytes to those bytes (every other byte is zero).        *)
(***************************************************************************)
EXTENDS Integers, Sequences, FiniteSets, Bags, TLC

\* storage/pager.rs
PAGE_SIZE == 4096
HEADER_SIZE == 64

----------------------------------------------------------------------------
(* Generic helpers on sequences and numbers.                                *)

Min(a, b) == IF a < b THEN a ELSE b

Pow2(n) == CASE n = 0 -> 1 [] n = 1 -> 2 [] n = 2 -> 4 [] n = 3 -> 8
             [] n = 4 -> 16 [] n = 5 -> 32 [] n = 6 -> 64 [] n = 7 -> 128

RECURSIVE Concat(_)
\* The concatenation of a sequence of sequences.
Concat(ss) == IF ss = <<>> THEN <<>> ELSE Head(ss) \o Concat(Tail(ss))

----------------------------------------------------------------------------
(* catalog/schema.rs                                                        *)

DataType_Integer == [kind |-> "Integer", max_len |-> 0]
DataType_Boolean == [kind |-> "Boolean", max_len |-> 0]
DataType_Text(n) == [kind |-> "Text", max_len |-> n]

Column(n, t, p, a) ==
    [name |-> n, data_type |-> t, is_primary |-> p, is_autoincrement |-> a]

byte_size(data_type) ==
    CASE data_type.kind = "Integer" -> 4
      [] data_type.kind = "Boolean" -> 1
      [] data_type.kind = "Text" -> data_type.max_len

RECURSIVE row_size_from(_, _)
row_size_from(columns, i) ==
    IF i > Len(columns) THEN 0
    ELSE byte_size(columns[i].data_type) + row_size_from(columns, i + 1)

\* Schema::row_size: a schema is its column sequence (the table name is the
\* key it is stored under).
row_size(columns) == row_size_from(columns, 1)

----------------------------------------------------------------------------
(* storage/record.rs: Field, Row and the codec.                             *)

\* enum Field { Integer(i32), Boolean(bool), Text(String) }: the variant and
\* its payload, in the slot of its type (the other slots are fixed).
Field_Integer(v) == [tag |-> "Integer", i |-> v, b |-> FALSE, s |-> <<>>]
Field_Boolean(v) == [tag |-> "Boolean", i |-> 0, b |-> v, s |-> <<>>]
Field_Text(v) == [tag |-> "Text", i |-> 0, b |-> FALSE, s |-> v]

\* derive(PartialEq) on Field: same variant and same payload.
FieldEq(x, y) ==
    /\ x.tag = y.tag
    /\ CASE x.tag = "Integer" -> x.i = y.i
         [] x.tag = "Boolean" -> x.b = y.b
         [] x.tag = "Text" -> x.s = y.s

RowEq(r, s) ==
    /\ Len(r) = Len(s)
    /\ \A i \in 1..Len(r) : FieldEq(r[i], s[i])

\* Byte k (0 = least significant) of a natural below 2^31.
NatByte(n, k) ==
    CASE k = 0 -> n % 256
      [] k = 1 -> (n \div 256) % 256
      [] k = 2 -> (n \div 65536) % 256
      [] k = 3 -> (n \div 16777216) % 256

\* i32::to_le_bytes: two's complement, least significant byte first.
to_le_bytes(val) ==
    IF val >= 0 THEN [k \in 1..4 |-> NatByte(val, k - 1)]
    ELSE [k \in 1..4 |-> 255 - NatByte(-(val + 1), k - 1)]

\* The four bytes read most significant first: what the round-trip
\* property must tell from from_le_bytes.
from_be_bytes(b) ==
    IF b[1] < 128
    THEN b[4] + 256 * b[3] + 65536 * b[2] + 16777216 * b[1]
    ELSE -((255 - b[4]) + 256 * (255 - b[3]) + 65536 * (255 - b[2])
           + 16777216 * (255 - b[1])) - 1

\* i32::from_le_bytes.
from_le_bytes(b) ==
    IF b[4] < 128
    THEN b[1] + 256 * b[2] + 65536 * b[3] + 16777216 * b[4]
    ELSE -((255 - b[1]) + 256 * (255 - b[2]) + 65536 * (255 - b[3])
           + 16777216 * (255 - b[4])) - 1

Zeros(n) == [k \in 1..n |-> 0]

\* A Text written without its padding: what the length property of
\* serialize must tell from SerializeField.
SerializeField_unpadded(data_type, field) ==
    CASE data_type.kind = "Integer" -> to_le_bytes(field.i)
      [] data_type.kind = "Boolean" -> << IF field.b THEN 1 ELSE 0 >>
      [] data_type.kind = "Text" ->
            SubSeq(field.s, 1, Min(data_type.max_len, Len(field.s)))

\* The bytes one (column, field) pair contributes; nothing when the field's
\* variant is not the column's.
SerializeField(data_type, field) ==
    CASE data_type.kind = "Integer" ->
            IF field.tag = "Integer" THEN to_le_bytes(field.i) ELSE <<>>
      [] data_type.kind = "Boolean" ->
            IF field.tag = "Boolean"
            THEN << IF field.b THEN 1 ELSE 0 >> ELSE <<>>
      [] data_type.kind = "Text" ->
            IF field.tag = "Text"
            THEN LET len_to_copy == Min(data_type.max_len, Len(field.s))
                 IN  SubSeq(field.s, 1, len_to_copy)
                       \o Zeros(data_type.max_len - len_to_copy)
            ELSE <<>>

\* Row::serialize.  It indexes fields[i] for every column, so it is defined
\* for rows with at least as many fields as the schema has columns.
serialize(fields, columns) ==
    Concat([i \in 1..Len(columns) |->
               SerializeField(columns[i].data_type, fields[i])])

RECURSIVE take_while_nonzero(_, _, _)
\* iter().take_while(|b| b != 0) over bytes[from..=to] (1-based, inclusive).
take_while_nonzero(bytes, from, to) ==
    IF from > to \/ bytes[from] = 0 THEN <<>>
    ELSE <<bytes[from]>> \o take_while_nonzero(bytes, from + 1, to)

\* U+FFFD as UTF-8.
REPLACEMENT == <<239, 191, 189>>

IsCont(b) == b >= 128 /\ b <= 191

RECURSIVE from_utf8_lossy(_)
\* String::from_utf8_lossy on bytes made of ASCII and two-byte sequences
\* (lead byte 194..223): a lead byte without its continuation byte, and a
\* continuation byte on its own, each become U+FFFD.
from_utf8_lossy(bytes) ==
    IF bytes = <<>> THEN <<>>
    ELSE LET b == Head(bytes) IN
         IF b < 128 THEN <<b>> \o from_utf8_lossy(Tail(bytes))
         ELSE IF b >= 194 /\ b <= 223 /\ Len(bytes) >= 2 /\ IsCont(bytes[2])
         THEN <<b, bytes[2]>> \o from_utf8_lossy(Tail(Tail(bytes)))
         ELSE REPLACEMENT \o from_utf8_lossy(Tail(bytes))

RECURSIVE deserialize_from(_, _, _, _)
deserialize_from(bytes, columns, i, cursor) ==
    IF i > Len(columns) THEN <<>>
    ELSE LET dt == columns[i].data_type IN
      CASE dt.kind = "Integer" ->
             << Field_Integer(from_le_bytes([k \in 1..4 |-> bytes[cursor + k]])) >>
               \o deserialize_from(bytes, columns, i + 1, cursor + 4)
        [] dt.kind = "Boolean" ->
             << Field_Boolean(bytes[cursor + 1] # 0) >>
               \o deserialize_from(bytes, columns, i + 1, cursor + 1)
        [] dt.kind = "Text" ->
             << Field_Text(from_utf8_lossy(take_while_nonzero(
                    bytes, cursor + 1, cursor + dt.max_len))) >>
               \o deserialize_from(bytes, columns, i + 1, cursor + dt.max_len)

\* Row::deserialize.
deserialize(bytes, columns) == deserialize_from(bytes, columns, 1, 0)

\* A row is valid for a schema: same arity, every field of its column's type
\* (the test of validate_and_prepare_row, engine.rs).
TagMatches(data_type, field) == data_type.kind = field.tag

WellTyped(fields, columns) ==
    /\ Len(fields) = Len(columns)
    /\ \A i \in 1..Len(columns) : TagMatches(columns[i].data_type, fields[i])

----------------------------------------------------------------------------
(* storage/pager.rs: Page.                                                  *)

\* Page::new: 4096 zero bytes.
Page_new == [i \in {} |-> 0]

\* page.data[i]
Byte(page, i) == IF i \in DOMAIN page THEN page[i] ELSE 0

\* page.data[i] = b
SetByte(page, i, b) ==
    [j \in IF b = 0 THEN DOMAIN page \ {i} ELSE DOMAIN page \cup {i} |->
        IF j = i THEN b ELSE page[j]]

get_row_offset(slot_index, rsize) == HEADER_SIZE + (slot_index * rsize)

\* b & (1 << bit_idx) != 0
BitSet(b, bit_idx) == (b \div Pow2(bit_idx)) % 2 = 1

\* A set_slot that stores the bit alone in its byte: what the frame
\* property of the bitmap must tell from set_slot.
set_slot_clear_byte(page, slot_index, occupied) ==
    SetByte(page, slot_index \div 8,
            IF occupied THEN Pow2(slot_index % 8) ELSE 0)

is_slot_full(page, slot_index) ==
    LET byte_idx == slot_index \div 8
        bit_idx == slot_index % 8
    IN  BitSet(Byte(page, byte_idx), bit_idx)

set_slot(page, slot_index, occupied) ==
    LET byte_idx == slot_index \div 8
        bit_idx == slot_index % 8
        b == Byte(page, byte_idx)
    IN  IF occupied
        THEN SetByte(page, byte_idx,
                     IF BitSet(b, bit_idx) THEN b ELSE b + Pow2(bit_idx))
        ELSE SetByte(page, byte_idx,
                     IF BitSet(b, bit_idx) THEN b - Pow2(bit_idx) ELSE b)

\* &page.data[offset..offset + n], 1-based.
Slice(page, offset, n) == [k \in 1..n |-> Byte(page, offset + k - 1)]

\* page.data[offset..offset + Len(bytes)].copy_from_slice(bytes)
copy_from_slice(page, offset, bytes) ==
    LET range == offset..(offset + Len(bytes) - 1)
        nonzero == {offset + k - 1 : k \in {k \in 1..Len(bytes) : bytes[k] # 0}}
    IN  [j \in (DOMAIN page \ range) \cup nonzero |->
            IF j \in range THEN bytes[j - offset + 1] ELSE page[j]]

----------------------------------------------------------------------------
(* storage/pager.rs: Pager.  A heap file is the sequence of its pages; the  *)
(* pager's file_length is PAGE_SIZE times their number.                     *)

file_length(file) == Len(file) * PAGE_SIZE

num_pages(file) == file_length(file) \div PAGE_SIZE

\* Pager::read_page: a short read leaves the rest of the page zero.
read_page(file, page_index) ==
    IF page_index < Len(file) THEN file[page_index + 1] ELSE Page_new

\* Pager::write_page: the file after the write (a write past the end extends
\* the file, the gap reading as zeros).
write_page(file, page_index, page) ==
    [i \in 1..(IF page_index < Len(file) THEN Len(file) ELSE page_index + 1) |->
        IF i = page_index + 1 THEN page
        ELSE IF i <= Len(file) THEN file[i] ELSE Page_new]

----------------------------------------------------------------------------
(* storage/pager.rs: Pager, over the bytes of the file.  A file is its      *)
(* length and the bytes that are not zero, by offset.                       *)

File_new == [len |-> 0, data |-> [o \in {} |-> 0]]

\* file.seek(SeekFrom::Start(offset)); file.write_all(&page.data): the
\* PAGE_SIZE bytes from offset are those of the page, the file growing to
\* hold them, a gap before offset reading as zeros.
File_write_all(file, offset, page) ==
    LET range == offset..(offset + PAGE_SIZE - 1)
        written == {offset + k : k \in DOMAIN page}
    IN  [len |-> IF offset + PAGE_SIZE > file.len THEN offset + PAGE_SIZE
                 ELSE file.len,
         data |-> [o \in (DOMAIN file.data \ range) \cup written |->
                      IF o \in range THEN page[o - offset] ELSE file.data[o]]]

\* file.seek(SeekFrom::Start(offset)); file.read(&mut page.data) on a new
\* page: the bytes of the file from offset, zeros from the end of the file.
File_read(file, offset) ==
    LET there == {k \in 0..(PAGE_SIZE - 1) :
                     offset + k < file.len /\ offset + k \in DOMAIN file.data}
    IN  [k \in there |-> file.data[offset + k]]

\* Pager::open: the length is read once, from the metadata.
Pager_of(file) == [file |-> file, file_length |-> file.len]

\* Pager::num_pages
Pager_num_pages(pager) == pager.file_length \div PAGE_SIZE

\* A read_page that reads page 0 whatever the index: what the property of
\* write_page and read_page must tell from Pager_read_page.
Pager_read_page_zero(pager, page_index) == File_read(pager.file, 0)

\* Pager::read_page
Pager_read_page(pager, page_index) ==
    File_read(pager.file, page_index * PAGE_SIZE)

\* A write_page that keeps the length it knew: what the property of the
\* file length must tell from Pager_write_page.
Pager_write_page_stale(pager, page_index, page) ==
    [file |-> File_write_all(pager.file, page_index * PAGE_SIZE, page),
     file_length |-> pager.file_length]

\* Pager::write_page: the pager after the call.
Pager_write_page(pager, page_index, page) ==
    LET written == File_write_all(pager.file, page_index * PAGE_SIZE, page)
    IN  [file |-> written, file_length |-> written.len]

----------------------------------------------------------------------------
(* index/mod.rs: PrimaryIndex.  The map is a function from keys (strings)   *)
(* to <<page_idx, slot_idx>>.                                               *)

PrimaryIndex_new == [k \in {} |-> <<0, 0>>]

\* An insert that overwrites the entry of a key it finds: what the
\* property of the loaded index must tell from PrimaryIndex::insert.
PrimaryIndex_insert_last(map, key, page_idx, slot_idx) ==
    [ok |-> TRUE,
     map |-> [k \in DOMAIN map \cup {key} |->
                 IF k = key THEN <<page_idx, slot_idx>> ELSE map[k]]]

\* PrimaryIndex::insert: [ok, map].
PrimaryIndex_insert(map, key, page_idx, slot_idx) ==
    IF key \in DOMAIN map
    THEN [ok |-> FALSE, map |-> map]
    ELSE [ok |-> TRUE,
          map |-> [k \in DOMAIN map \cup {key} |->
                      IF k = key THEN <<page_idx, slot_idx>> ELSE map[k]]]

RECURSIVE Digits(_)
\* The decimal digits of a natural, as ASCII.
Digits(n) == IF n < 10 THEN <<48 + n>> ELSE Digits(n \div 10) \o <<48 + (n % 10)>>

\* i32::to_string
int_to_string(v) == IF v < 0 THEN <<45>> \o Digits(-v) ELSE Digits(v)

\* bool::to_string: "true" / "false"
bool_to_string(b) == IF b THEN <<116, 114, 117, 101>> ELSE <<102, 97, 108, 115, 101>>

\* The index key of a primary-key field (load_index, and the fast path of
\* Select).
pk_value(field) ==
    CASE field.tag = "Integer" -> int_to_string(field.i)
      [] field.tag = "Text" -> field.s
      [] field.tag = "Boolean" -> bool_to_string(field.b)

----------------------------------------------------------------------------
(* storage/mod.rs: Table, as functions of the heap file, the schema's       *)
(* columns and the index.                                                   *)

\* (PAGE_SIZE - HEADER_SIZE) / self.schema.row_size()
max_slots(columns) == (PAGE_SIZE - HEADER_SIZE) \div row_size(columns)

RECURSIVE SortedSeq(_)
SortedSeq(S) ==
    IF S = {} THEN <<>>
    ELSE LET m == CHOOSE x \in S : \A y \in S : x <= y
         IN  <<m>> \o SortedSeq(S \ {m})

RECURSIVE Reverse(_)
Reverse(seq) == IF seq = <<>> THEN <<>> ELSE Reverse(Tail(seq)) \o <<Head(seq)>>

\* The live slots of a page from the highest to the lowest: what the
\* property of the scan order must tell from LiveSlots.
LiveSlots_descending(page, max) ==
    Reverse(SortedSeq({s \in 0..(max - 1) : is_slot_full(page, s)}))

\* The slots s in 0..max-1 with is_slot_full(s), ascending: what the loops
\* `for s_idx in 0..max_slots { if page.is_slot_full(s_idx) {..} }` visit.
\* Only a non-zero byte holds a set bit, so the slots are looked for in the
\* non-zero bytes of the page.
LiveSlots(page, max) ==
    LET bytes == {b \in DOMAIN page : 8 * b < max}
        cand == UNION {{8 * b + k : k \in 0..7} : b \in bytes}
    IN  SortedSeq({s \in cand : s < max /\ is_slot_full(page, s)})

\* The row stored in a slot.
RowAt(page, s_idx, columns) ==
    LET offset == get_row_offset(s_idx, row_size(columns))
    IN  deserialize(Slice(page, offset, row_size(columns)), columns)

\* The index of the first column with is_primary, 0-based, or -1 (None).
RECURSIVE pk_position(_, _)
pk_position(columns, i) ==
    IF i > Len(columns) THEN -1
    ELSE IF columns[i].is_primary THEN i - 1
    ELSE pk_position(columns, i + 1)

pk_col_idx(columns) == pk_position(columns, 1)

\* A search that takes the last free slot of the first page that has one,
\* not the first: what the slot-choice property must tell from FindTarget.
FindTarget_last(file, columns, p_idx) ==
    LET free == {ps \in (0..(num_pages(file) - 1)) \X (0..(max_slots(columns) - 1)) :
                    ~is_slot_full(read_page(file, ps[1]), ps[2])}
    IN  IF free = {} THEN [found |-> FALSE, page |-> 0, slot |-> 0]
        ELSE LET p == CHOOSE q \in {ps[1] : ps \in free} :
                         \A ps \in free : q <= ps[1]
                 sl == CHOOSE t \in {ps[2] : ps \in {x \in free : x[1] = p}} :
                         \A ps \in free : ps[1] = p => ps[2] <= t
             IN  [found |-> TRUE, page |-> p, slot |-> sl]

RECURSIVE FindTarget(_, _, _)
\* Step 1 of insert_row: the first page, from p_idx on, with a slot below
\* max_slots that is not full, and the first such slot in it.
FindTarget(file, columns, p_idx) ==
    IF p_idx >= num_pages(file) THEN [found |-> FALSE, page |-> 0, slot |-> 0]
    ELSE LET p == read_page(file, p_idx)
         IN  IF \E s \in 0..(max_slots(columns) - 1) : ~is_slot_full(p, s)
             THEN [found |-> TRUE, page |-> p_idx,
                   slot |-> CHOOSE s \in 0..(max_slots(columns) - 1) :
                               /\ ~is_slot_full(p, s)
                               /\ \A t \in 0..(s - 1) : is_slot_full(p, t)]
             ELSE FindTarget(file, columns, p_idx + 1)

\* Table::insert_row: the heap file after the call.  The index is neither
\* read nor written.
insert_row(file, columns, row) ==
    LET serialized_row == serialize(row, columns)
        t == FindTarget(file, columns, 0)
        p_idx == IF t.found THEN t.page ELSE num_pages(file)
        s_idx == IF t.found THEN t.slot ELSE 0
        page0 == IF t.found THEN read_page(file, p_idx) ELSE Page_new
        page1 == set_slot(page0, s_idx, TRUE)
        offset == get_row_offset(s_idx, row_size(columns))
        page2 == copy_from_slice(page1, offset, serialized_row)
    IN  write_page(file, p_idx, page2)

\* Table::insert_row's return value: Ok(()) on every path that does no I/O
\* error.
insert_row_result(file, columns, index, row) == "Ok"

\* The live (page, slot) pairs of a heap file in scan order.
LiveRefs(file, columns) ==
    Concat([p \in 1..num_pages(file) |->
        LET live == LiveSlots(read_page(file, p - 1), max_slots(columns))
        IN  [k \in 1..Len(live) |-> <<p - 1, live[k]>>]])

\* A scan that stops after page 0: what the scan property must tell from
\* scan_rows.
scan_rows_first_page(file, columns) ==
    IF num_pages(file) = 0 THEN <<>>
    ELSE LET live == LiveSlots(read_page(file, 0), max_slots(columns))
         IN  [k \in 1..Len(live) |-> RowAt(read_page(file, 0), live[k], columns)]

\* Table::scan_rows
scan_rows(file, columns) ==
    LET refs == LiveRefs(file, columns)
    IN  [k \in 1..Len(refs) |->
            RowAt(read_page(file, refs[k][1]), refs[k][2], columns)]

RECURSIVE load_index_from(_, _, _, _, _)
load_index_from(file, columns, col_idx, refs, map) ==
    IF refs = <<>> THEN map
    ELSE LET ref == Head(refs)
             row == RowAt(read_page(file, ref[1]), ref[2], columns)
             key == pk_value(row[col_idx + 1])
         IN  load_index_from(file, columns, col_idx, Tail(refs),
                 PrimaryIndex_insert(map, key, ref[1], ref[2]).map)

\* Table::load_index on a Table built with PrimaryIndex::new(): the map.
load_index(file, columns) ==
    IF pk_col_idx(columns) >= 0
    THEN load_index_from(file, columns, pk_col_idx(columns),
                         LiveRefs(file, columns), PrimaryIndex_new)
    ELSE PrimaryIndex_new

\* Table::get_row: random access to a slot.
get_row(file, columns, p_idx, s_idx) ==
    RowAt(read_page(file, p_idx), s_idx, columns)

\* Table::delete_row: read the page, clear the slot bit, write it back.
delete_row(file, p_idx, s_idx) ==
    write_page(file, p_idx, set_slot(read_page(file, p_idx), s_idx, FALSE))

\* Table::update_row: serialize the new row, overwrite the slot bytes in
\* place, write the page back.
update_row(file, columns, p_idx, s_idx, new_row) ==
    LET page == read_page(file, p_idx)
        offset == get_row_offset(s_idx, row_size(columns))
    IN  write_page(file, p_idx,
                   copy_from_slice(page, offset, serialize(new_row, columns)))

----------------------------------------------------------------------------
(* sql/mod.rs: Filter, Operator, JoinClause; record.rs: row_matches_filter. *)

None == <<>>
Some(x) == <<x>>

Filter(c, op, v) == [column_name |-> c, operator |-> op, value |-> v]

JoinClause(l, rt, r) == [left_column |-> l, right_table |-> rt, right_column |-> r]

\* columns.iter().position(|c| c.name == name), 0-based, or -1 (None).
RECURSIVE name_position(_, _, _)
name_position(columns, name, i) ==
    IF i > Len(columns) THEN -1
    ELSE IF columns[i].name = name THEN i - 1
    ELSE name_position(columns, name, i + 1)

\* A NotEq that holds only between fields of one variant: what the
\* property of the filter must tell from row_matches_filter.
row_matches_filter_same_tag(row, filter, columns) ==
    LET col_idx == name_position(columns, filter.column_name, 1) IN
    IF col_idx < 0 THEN FALSE
    ELSE LET actual_value == row[col_idx + 1] IN
      CASE filter.operator = "Eq" -> FieldEq(actual_value, filter.value)
        [] filter.operator = "NotEq" ->
             actual_value.tag = filter.value.tag
               /\ ~FieldEq(actual_value, filter.value)
        [] filter.operator = "GreaterThan" ->
             actual_value.tag = "Integer" /\ filter.value.tag = "Integer"
               /\ actual_value.i > filter.value.i
        [] filter.operator = "LessThan" ->
             actual_value.tag = "Integer" /\ filter.value.tag = "Integer"
               /\ actual_value.i < filter.value.i

\* Row::row_matches_filter
row_matches_filter(row, filter, columns) ==
    LET col_idx == name_position(columns, filter.column_name, 1) IN
    IF col_idx < 0 THEN FALSE
    ELSE LET actual_value == row[col_idx + 1] IN
      CASE filter.operator = "Eq" -> FieldEq(actual_value, filter.value)
        [] filter.operator = "NotEq" -> ~FieldEq(actual_value, filter.value)
        [] filter.operator = "GreaterThan" ->
             IF actual_value.tag = "Integer" /\ filter.value.tag = "Integer"
             THEN actual_value.i > filter.value.i ELSE FALSE
        [] filter.operator = "LessThan" ->
             IF actual_value.tag = "Integer" /\ filter.value.tag = "Integer"
             THEN actual_value.i < filter.value.i ELSE FALSE

----------------------------------------------------------------------------
(* catalog/mod.rs: Catalog, a record of the maps tables (name -> columns)   *)
(* and sequences (name -> counter).                                         *)

\* The catalog is its two maps and, as `file`, what catalog.json at its path
\* holds: None while the file does not exist, else Some(document).
\* load_or_create when there is no catalog file: two empty maps.
Catalog_new ==
    [tables |-> [n \in {} |-> <<>>], sequences |-> [n \in {} |-> 0], file |-> <<>>]

MapPut(map, key, val) ==
    [k \in DOMAIN map \cup {key} |-> IF k = key THEN val ELSE map[k]]

MapRemove(map, key) == [k \in DOMAIN map \ {key} |-> map[k]]

\* serde_json::to_string_pretty(&CatalogData {tables, sequences}): a JSON
\* object for each map, given as the set of its members (key, value); the
\* value of a table is its Schema {table_name, columns}.
to_json(tables, sequences) ==
    [tables |-> {<<n, [table_name |-> n, columns |-> tables[n]]>> : n \in DOMAIN tables},
     sequences |-> {<<n, sequences[n]>> : n \in DOMAIN sequences}]

\* Catalog::save: the catalog with its file rewritten from its two maps.
save(catalog) ==
    [catalog EXCEPT !.file = <<to_json(catalog.tables, catalog.sequences)>>]

\* serde_json::from_str::<CatalogData>: the map a JSON object gives, each
\* key with the value of its member.
from_json(members) ==
    [n \in {m[1] : m \in members} |-> (CHOOSE m \in members : m[1] = n)[2]]

\* Catalog::load_or_create(path), given what the file at path holds.
load_or_create(file) ==
    IF file = <<>> THEN Catalog_new
    ELSE LET schemas == from_json(file[1].tables)
         IN  [tables |-> [n \in DOMAIN schemas |-> schemas[n].columns],
              sequences |-> from_json(file[1].sequences),
              file |-> file]

\* Catalog::add_table
add_table(catalog, name, columns) ==
    save([catalog EXCEPT
            !.tables = MapPut(catalog.tables, name, columns),
            !.sequences = IF name \in DOMAIN catalog.sequences
                          THEN catalog.sequences
                          ELSE MapPut(catalog.sequences, name, 0)])

\* An id that is the counter as it stands, not the counter plus one: what
\* the autoincrement property must tell from next_id.
next_id_stale(catalog, table_name) ==
    IF table_name \in DOMAIN catalog.sequences
    THEN catalog.sequences[table_name] ELSE 0

\* Catalog::get_next_id: the id issued.
next_id(catalog, table_name) ==
    LET current_id == IF table_name \in DOMAIN catalog.sequences
                      THEN catalog.sequences[table_name] ELSE 0
    IN  current_id + 1

\* A counter advanced in memory and never saved: what the persistence
\* property must tell from get_next_id.
get_next_id_unsaved(catalog, table_name) ==
    [catalog EXCEPT !.sequences =
        MapPut(catalog.sequences, table_name, next_id(catalog, table_name))]

\* Catalog::get_next_id: the catalog after the call.
get_next_id(catalog, table_name) ==
    save([catalog EXCEPT !.sequences =
             MapPut(catalog.sequences, table_name, next_id(catalog, table_name))])

----------------------------------------------------------------------------
(* engine.rs: Database::execute, one operator per command.  Each yields the *)
(* catalog and the heap files after the command and its result.  A message  *)
(* is the tuple of its fixed text and the values formatted into it.        *)

Err(text) == [kind |-> "Err", text |-> text, columns |-> <<>>, rows |-> <<>>]
Message(text) == [kind |-> "Message", text |-> text, columns |-> <<>>, rows |-> <<>>]
Data(columns, rows) == [kind |-> "Data", text |-> <<>>, columns |-> columns, rows |-> rows]

Outcome(catalog, disk, result) == [catalog |-> catalog, disk |-> disk, result |-> result]

\* Pager::open: OpenOptions .create(true) makes an empty file when there is
\* none.
Pager_open(disk, table_name) ==
    IF table_name \in DOMAIN disk THEN disk ELSE MapPut(disk, table_name, <<>>)

\* A CreateTable that replaces the schema of a table that exists: what the
\* property of CreateTable must tell from it.
CreateTable_overwrite(catalog, disk, name, columns) ==
    Outcome(add_table(catalog, name, columns), disk,
            Message(<<"Table ", name, " created.">>))

\* Command::CreateTable
CreateTable(catalog, disk, name, columns) ==
    IF name \in DOMAIN catalog.tables
    THEN Outcome(catalog, disk, Err(<<"Table ", name, " already exists">>))
    ELSE Outcome(add_table(catalog, name, columns), disk,
                 Message(<<"Table ", name, " created.">>))

\* A DropTable that leaves the heap file in place: what the property of
\* DropTable must tell from it.
DropTable_keep_file(catalog, disk, table_name) ==
    IF table_name \notin DOMAIN catalog.tables
    THEN Outcome(catalog, disk, Err(<<"Table ", table_name, " not found">>))
    ELSE Outcome(save([catalog EXCEPT
                          !.tables = MapRemove(catalog.tables, table_name),
                          !.sequences = MapRemove(catalog.sequences, table_name)]),
                 disk,
                 Message(<<"Table ", table_name, " dropped.">>))

\* Command::DropTable
DropTable(catalog, disk, table_name) ==
    IF table_name \notin DOMAIN catalog.tables
    THEN Outcome(catalog, disk, Err(<<"Table ", table_name, " not found">>))
    ELSE Outcome(save([catalog EXCEPT
                          !.tables = MapRemove(catalog.tables, table_name),
                          !.sequences = MapRemove(catalog.sequences, table_name)]),
                 MapRemove(disk, table_name),
                 Message(<<"Table ", table_name, " dropped.">>))

\* Command::DropTable when std::fs::remove_file fails: the schema and the
\* counter are removed and the catalog saved before the error is returned;
\* the heap file stays.
DropTable_io_error(catalog, disk, table_name) ==
    IF table_name \notin DOMAIN catalog.tables
    THEN Outcome(catalog, disk, Err(<<"Table ", table_name, " not found">>))
    ELSE Outcome(save([catalog EXCEPT
                          !.tables = MapRemove(catalog.tables, table_name),
                          !.sequences = MapRemove(catalog.sequences, table_name)]),
                 disk,
                 Err(<<"io error", "remove_file">>))

\* columns.iter().position(|c| c.is_autoincrement), 0-based, or -1 (None).
RECURSIVE auto_position(_, _)
auto_position(columns, i) ==
    IF i > Len(columns) THEN -1
    ELSE IF columns[i].is_autoincrement THEN i - 1
    ELSE auto_position(columns, i + 1)

\* Vec::insert(idx, x), idx 0-based.
VecInsert(seq, idx, x) ==
    SubSeq(seq, 1, idx) \o <<x>> \o SubSeq(seq, idx + 1, Len(seq))

\* A type validation that accepts every row: what the property of Insert
\* must tell from first_mismatch.
first_mismatch_none(columns, fields, i) == 0

\* The first column (1-based) whose field is not of its type, or 0.
RECURSIVE first_mismatch(_, _, _)
first_mismatch(columns, fields, i) ==
    IF i > Len(columns) THEN 0
    ELSE IF ~TagMatches(columns[i].data_type, fields[i]) THEN i
    ELSE first_mismatch(columns, fields, i + 1)

\* A row preparation that takes the id only for a row that passes the
\* checks: what the property of the counters must tell from
\* validate_and_prepare_row.
validate_and_prepare_row_late(catalog, table_name, provided_fields) ==
    LET columns == catalog.tables[table_name]
        auto_idx == auto_position(columns, 1)
        auto_field == Field_Integer(next_id(catalog, table_name))
        final_fields ==
            IF auto_idx < 0 THEN provided_fields
            ELSE IF Len(provided_fields) = Len(columns)
            THEN [provided_fields EXCEPT ![auto_idx + 1] = auto_field]
            ELSE IF Len(provided_fields) = Len(columns) - 1
            THEN VecInsert(provided_fields, auto_idx, auto_field)
            ELSE <<>>
        valid == /\ Len(final_fields) = Len(columns)
                 /\ first_mismatch(columns, final_fields, 1) = 0
    IN  IF valid
        THEN [catalog |-> IF auto_idx >= 0 THEN get_next_id(catalog, table_name)
                          ELSE catalog,
              ok |-> TRUE, row |-> final_fields, err |-> <<>>]
        ELSE [catalog |-> catalog, ok |-> FALSE, row |-> <<>>,
              err |-> <<"Type mismatch for column '">>]

\* Database::validate_and_prepare_row: [catalog, ok, row, err].
validate_and_prepare_row(catalog, table_name, provided_fields) ==
    LET columns == catalog.tables[table_name]
        auto_idx == auto_position(columns, 1)
        catalog1 == IF auto_idx >= 0 THEN get_next_id(catalog, table_name) ELSE catalog
        auto_field == Field_Integer(next_id(catalog, table_name))
        count_ok == \/ auto_idx < 0
                    \/ Len(provided_fields) = Len(columns)
                    \/ Len(provided_fields) = Len(columns) - 1
        final_fields ==
            IF auto_idx < 0 THEN provided_fields
            ELSE IF Len(provided_fields) = Len(columns)
            THEN [provided_fields EXCEPT ![auto_idx + 1] = auto_field]
            ELSE VecInsert(provided_fields, auto_idx, auto_field)
    IN  IF ~count_ok
        THEN [catalog |-> catalog1, ok |-> FALSE, row |-> <<>>,
              err |-> <<"Column count mismatch: expected ", Len(columns), " or ",
                        Len(columns) - 1, " (with autoincrement), found ",
                        Len(provided_fields)>>]
        ELSE IF Len(final_fields) # Len(columns)
        THEN [catalog |-> catalog1, ok |-> FALSE, row |-> <<>>,
              err |-> <<"Table ", table_name, " expects ", Len(columns),
                        " columns, but ", Len(final_fields), " were provided">>]
        ELSE LET i == first_mismatch(columns, final_fields, 1) IN
             IF i # 0
             THEN [catalog |-> catalog1, ok |-> FALSE, row |-> <<>>,
                   err |-> <<"Type mismatch for column '", columns[i].name,
                             "': expected ", columns[i].data_type, ", found ",
                             final_fields[i]>>]
             ELSE [catalog |-> catalog1, ok |-> TRUE, row |-> final_fields,
                   err |-> <<>>]

\* An Insert that appends a page before it returns the validation error:
\* what the property of failed commands must tell from Insert.
Insert_writes_first(catalog, disk, table_name, fields) ==
    IF table_name \notin DOMAIN catalog.tables
    THEN Outcome(catalog, disk, Err(<<"Table ", table_name, " not found">>))
    ELSE
      LET columns == catalog.tables[table_name]
          disk1 == Pager_open(disk, table_name)
          prep == validate_and_prepare_row(catalog, table_name, fields)
      IN  IF ~prep.ok
          THEN Outcome(prep.catalog,
                       [disk1 EXCEPT ![table_name] = write_page(@, num_pages(@), Page_new)],
                       Err(prep.err))
          ELSE Outcome(prep.catalog,
                       [disk1 EXCEPT ![table_name] = insert_row(@, columns, prep.row)],
                       Message(<<"Inserted 1 row : ", prep.row>>))

\* Command::Insert
Insert(catalog, disk, table_name, fields) ==
    IF table_name \notin DOMAIN catalog.tables
    THEN Outcome(catalog, disk, Err(<<"Table ", table_name, " not found">>))
    ELSE
      LET columns == catalog.tables[table_name]
          disk1 == Pager_open(disk, table_name)
          index == load_index(disk1[table_name], columns)
          prep == validate_and_prepare_row(catalog, table_name, fields)
      IN  IF ~prep.ok THEN Outcome(prep.catalog, disk1, Err(prep.err))
          ELSE IF insert_row_result(disk1[table_name], columns, index, prep.row) # "Ok"
          THEN Outcome(prep.catalog, disk1,
                       Err(insert_row_result(disk1[table_name], columns, index, prep.row)))
          ELSE Outcome(prep.catalog,
                       [disk1 EXCEPT ![table_name] = insert_row(@, columns, prep.row)],
                       Message(<<"Inserted 1 row : ", prep.row>>))

\* The targets of Delete and Update: the live (page, slot, row) triples, in
\* scan order, that the filter (None: every row) keeps.
Targets(file, columns, filter) ==
    LET refs == LiveRefs(file, columns)
        all == [k \in 1..Len(refs) |->
                   [p_idx |-> refs[k][1], s_idx |-> refs[k][2],
                    row |-> get_row(file, columns, refs[k][1], refs[k][2])]]
        Keep(t) == filter = None \/ row_matches_filter(t.row, filter[1], columns)
    IN  SelectSeq(all, Keep)

RECURSIVE delete_targets(_, _)
\* `for (p_idx, s_idx, row) in targets { table.delete_row(p_idx, s_idx) .. }`
delete_targets(file, targets) ==
    IF targets = <<>> THEN file
    ELSE delete_targets(delete_row(file, Head(targets).p_idx, Head(targets).s_idx),
                        Tail(targets))

RECURSIVE escape_debug(_)
\* <str as Debug>::fmt between the quotes: `"` and `\` get a backslash,
\* newline, carriage return and tab their letter; printable ASCII is kept.
escape_debug(str) ==
    IF str = <<>> THEN <<>>
    ELSE LET c == Head(str)
             e == CASE c = 34 -> <<92, 34>>
                    [] c = 92 -> <<92, 92>>
                    [] c = 10 -> <<92, 110>>
                    [] c = 13 -> <<92, 114>>
                    [] c = 9  -> <<92, 116>>
                    [] OTHER  -> <<c>>
         IN  e \o escape_debug(Tail(str))

\* format!("{:?}", field) with the derived Debug of Field: Integer(1),
\* Text("a"), Boolean(true).
debug_fmt(field) ==
    CASE field.tag = "Integer" ->
            <<73, 110, 116, 101, 103, 101, 114, 40>> \o int_to_string(field.i) \o <<41>>
      [] field.tag = "Text" ->
            <<84, 101, 120, 116, 40, 34>> \o escape_debug(field.s) \o <<34, 41>>
      [] field.tag = "Boolean" ->
            <<66, 111, 111, 108, 101, 97, 110, 40>> \o bool_to_string(field.b) \o <<41>>

RECURSIVE remove_targets(_, _, _)
\* `table.index.map.remove(&pk_val)` for each target of a Delete, with
\* pk_val the Debug text of the primary-key field.
remove_targets(map, pk_idx, targets) ==
    IF targets = <<>> \/ pk_idx < 0 THEN map
    ELSE remove_targets(MapRemove(map, debug_fmt(Head(targets).row[pk_idx + 1])),
                        pk_idx, Tail(targets))

\* The index of the Table of a Delete when the command returns: loaded by
\* load_index, then one removal for each target.
Delete_index(file, columns, filter) ==
    remove_targets(load_index(file, columns), pk_col_idx(columns),
                   Targets(file, columns, filter))

\* A Delete that reports the live rows of the table, not its targets: what
\* the property of the counts must tell from Delete.
Delete_counts_live(catalog, disk, table_name, filter) ==
    IF table_name \notin DOMAIN catalog.tables
    THEN Outcome(catalog, disk, Err(<<"Table not found">>))
    ELSE
      LET columns == catalog.tables[table_name]
          disk1 == Pager_open(disk, table_name)
          targets == Targets(disk1[table_name], columns, filter)
      IN  Outcome(catalog,
                  [disk1 EXCEPT ![table_name] = delete_targets(@, targets)],
                  Message(<<"Deleted ", Len(LiveRefs(disk1[table_name], columns)),
                            " rows.">>))

\* Command::Delete
Delete(catalog, disk, table_name, filter) ==
    IF table_name \notin DOMAIN catalog.tables
    THEN Outcome(catalog, disk, Err(<<"Table not found">>))
    ELSE
      LET columns == catalog.tables[table_name]
          disk1 == Pager_open(disk, table_name)
          targets == Targets(disk1[table_name], columns, filter)
      IN  Outcome(catalog,
                  [disk1 EXCEPT ![table_name] = delete_targets(@, targets)],
                  Message(<<"Deleted ", Len(targets), " rows.">>))

RECURSIVE apply_assignments_any(_, _, _)
\* An assignment loop without the primary-key check: what the Update
\* property must tell from apply_assignments.
apply_assignments_any(row, assignments, columns) ==
    IF assignments = <<>> THEN [ok |-> TRUE, row |-> row, err |-> <<>>]
    ELSE LET col_idx == name_position(columns, Head(assignments)[1], 1)
         IN  IF col_idx < 0
             THEN [ok |-> FALSE, row |-> row,
                   err |-> <<"Column ", Head(assignments)[1], " not found">>]
             ELSE apply_assignments_any(
                      [row EXCEPT ![col_idx + 1] = Head(assignments)[2]],
                      Tail(assignments), columns)

RECURSIVE apply_assignments(_, _, _)
\* The assignment loop of Update on one target row: [ok, row, err].
apply_assignments(row, assignments, columns) ==
    IF assignments = <<>> THEN [ok |-> TRUE, row |-> row, err |-> <<>>]
    ELSE LET col_name == Head(assignments)[1]
             new_val == Head(assignments)[2]
             col_idx == name_position(columns, col_name, 1)
         IN  IF col_idx < 0
             THEN [ok |-> FALSE, row |-> row,
                   err |-> <<"Column ", col_name, " not found">>]
             ELSE IF columns[col_idx + 1].is_primary
             THEN [ok |-> FALSE, row |-> row,
                   err |-> <<"Updating Primary Key is not allowed">>]
             ELSE apply_assignments([row EXCEPT ![col_idx + 1] = new_val],
                                    Tail(assignments), columns)

RECURSIVE update_targets(_, _, _, _, _)
\* Step 2 of Update: [file, result], the rows written one by one.
update_targets(file, columns, targets, assignments, updated_count) ==
    IF targets = <<>>
    THEN [file |-> file, result |-> Message(<<"Updated ", updated_count, " rows.">>)]
    ELSE LET t == Head(targets)
             a == apply_assignments(t.row, assignments, columns)
         IN  IF ~a.ok THEN [file |-> file, result |-> Err(a.err)]
             ELSE update_targets(update_row(file, columns, t.p_idx, t.s_idx, a.row),
                                 columns, Tail(targets), assignments,
                                 updated_count + 1)

\* Command::Update
Update(catalog, disk, table_name, assignments, filter) ==
    IF table_name \notin DOMAIN catalog.tables
    THEN Outcome(catalog, disk, Err(<<"Table not found">>))
    ELSE
      LET columns == catalog.tables[table_name]
          disk1 == Pager_open(disk, table_name)
          targets == Targets(disk1[table_name], columns, filter)
          u == update_targets(disk1[table_name], columns, targets, assignments, 0)
      IN  Outcome(catalog, [disk1 EXCEPT ![table_name] = u.file], u.result)

\* Nested loops that merge every pair of rows, equal join fields or not:
\* what the join property must tell from join_rows.
join_rows_cross(rows, right_rows, left_col_idx, right_col_idx) ==
    Concat([a \in 1..Len(rows) |->
        [b \in 1..Len(right_rows) |-> rows[a] \o right_rows[b]]])

\* The nested loops of the join: for each row_a, for each row_b, the merged
\* row when the join fields are equal.
join_rows(rows, right_rows, left_col_idx, right_col_idx) ==
    Concat([a \in 1..Len(rows) |->
        LET Match(row_b) == FieldEq(rows[a][left_col_idx + 1], row_b[right_col_idx + 1])
            matched == SelectSeq(right_rows, Match)
        IN  [b \in 1..Len(matched) |-> rows[a] \o matched[b]]])

column_names(columns) == [i \in 1..Len(columns) |-> columns[i].name]

\* The end of Select: Message when there is no row, else Data.
select_result(merged_columns, final_rows) ==
    IF final_rows = <<>>
    THEN Message(<<"No rows found.">>)
    ELSE Data(column_names(merged_columns), final_rows)

\* Whether Select takes the index fast path.
used_index(columns, join, filter) ==
    /\ join = None
    /\ filter # None
    /\ pk_col_idx(columns) >= 0
    /\ filter[1].column_name = columns[pk_col_idx(columns) + 1].name
    /\ filter[1].operator = "Eq"

\* The fast path: the row the index holds under the filter value's key.
index_lookup(file, columns, filter) ==
    LET key == pk_value(filter[1].value)
        map == load_index(file, columns)
    IN  IF key \in DOMAIN map
        THEN << get_row(file, columns, map[key][1], map[key][2]) >>
        ELSE <<>>

\* Command::Select
Select(catalog, disk, table_name, join, filter) ==
    IF table_name \notin DOMAIN catalog.tables
    THEN Outcome(catalog, disk, Err(<<"Table ", table_name, " not found">>))
    ELSE
      LET columns == catalog.tables[table_name]
          disk1 == Pager_open(disk, table_name)
          file == disk1[table_name]
      IN
      IF used_index(columns, join, filter)
      THEN Outcome(catalog, disk1,
                   select_result(columns, index_lookup(file, columns, filter)))
      ELSE
        LET scanned == scan_rows(file, columns)
            Keep(r) == row_matches_filter(r, filter[1], columns)
            rows == IF filter # None THEN SelectSeq(scanned, Keep) ELSE scanned
        IN
        IF join = None
        THEN Outcome(catalog, disk1, select_result(columns, rows))
        ELSE
          LET join_info == join[1] IN
          IF join_info.right_table \notin DOMAIN catalog.tables
          THEN Outcome(catalog, disk1,
                       Err(<<"Table ", join_info.right_table, " not found">>))
          ELSE
            LET right_columns == catalog.tables[join_info.right_table]
                disk2 == Pager_open(disk1, join_info.right_table)
                right_rows == scan_rows(disk2[join_info.right_table], right_columns)
                left_col_idx == name_position(columns, join_info.left_column, 1)
                right_col_idx == name_position(right_columns, join_info.right_column, 1)
            IN
            IF left_col_idx < 0
            THEN Outcome(catalog, disk2,
                         Err(<<"Column ", join_info.left_column,
                               " not found in table ", table_name>>))
            ELSE IF right_col_idx < 0
            THEN Outcome(catalog, disk2,
                         Err(<<"Column ", join_info.right_column,
                               " not found in table ", join_info.right_table>>))
            ELSE Outcome(catalog, disk2,
                         select_result(columns \o right_columns,
                                       join_rows(rows, right_rows,
                                                 left_col_idx, right_col_idx)))

\* Database::execute: `match command`.
execute(catalog, disk, command) ==
    CASE command.kind = "CreateTable" ->
            CreateTable(catalog, disk, command.name, command.columns)
      [] command.kind = "DropTable" ->
            DropTable(catalog, disk, command.table_name)
      [] command.kind = "Insert" ->
            Insert(catalog, disk, command.table_name, command.fields)
      [] command.kind = "Delete" ->
            Delete(catalog, disk, command.table_name, command.filter)
      [] command.kind = "Update" ->
            Update(catalog, disk, command.table_name, command.assignments,
                   command.filter)
      [] command.kind = "Select" ->
            Select(catalog, disk, command.table_name, command.join, command.filter)

----------------------------------------------------------------------------
(* The web front end: Mutex<Database> and handle_query.                     *)

\* A lock() that returns to every caller, whoever holds the mutex: what the
\* property of the requests must tell from Mutex::lock.
Mutex_lock_unguarded(holder, request) == [acquired |-> TRUE, holder |-> request]

\* Mutex::lock for a caller: it returns, with the caller the holder, when
\* nobody holds the mutex (holder 0), and blocks otherwise.
Mutex_lock(holder, request) ==
    IF holder = 0
    THEN [acquired |-> TRUE, holder |-> request]
    ELSE [acquired |-> FALSE, holder |-> holder]

\* The drop of the MutexGuard at the end of handle_query.
Mutex_unlock(holder) == 0

\* handle_query, the arm of a result of execute:
\* Ok(res) => res, Err(e) => Message("Error: {e}").
handle_result(res) ==
    IF res.kind = "Err" THEN Message(<<"Error: ">> \o res.text) ELSE res

----------------------------------------------------------------------------
(* Step 2 of Delete and of Update, one target at a time.                    *)

\* A loop that takes the targets from the last to the first: what the
\* property of the write order must tell from next_target.
next_target_last(targets, written) == targets[Len(targets) - written]

\* `for (p_idx, s_idx, row) in targets`: the target of the next pass, after
\* `written` passes.
next_target(targets, written) == targets[written + 1]

\* The body of the loop for one target: [ok, file, err].  Delete calls
\* delete_row; Update applies the assignments to the row of the target and
\* calls update_row.
mutate_target(file, columns, command, target) ==
    IF command.kind = "Delete"
    THEN [ok |-> TRUE, file |-> delete_row(file, target.p_idx, target.s_idx),
          err |-> <<>>]
    ELSE LET a == apply_assignments(target.row, command.assignments, columns)
         IN  IF a.ok
             THEN [ok |-> TRUE,
                   file |-> update_row(file, columns, target.p_idx, target.s_idx, a.row),
                   err |-> <<>>]
             ELSE [ok |-> FALSE, file |-> file, err |-> a.err]

\* The message of a Delete or an Update that has written all its targets.
mutation_result(command, count) ==
    Message(<<(IF command.kind = "Delete" THEN "Deleted " ELSE "Updated "),
              count, " rows.">>)

----------------------------------------------------------------------------
(* The panics of the storage layer on schemas of no byte and of rows wider *)
(* than a page.                                                             *)

Panic(text) == [kind |-> "Panic", text |-> text, columns |-> <<>>, rows |-> <<>>]

\* Table::load_index: with a primary key the slots of a page are counted
\* before the first page is read, (PAGE_SIZE - HEADER_SIZE) / row_size().
Panics_load_index(columns) ==
    pk_col_idx(columns) >= 0 /\ row_size(columns) = 0

\* Table::scan_rows: the same division, before the loop over the pages.
Panics_scan_rows(columns) == row_size(columns) = 0

\* Table::insert_row: the division is inside the loop over the pages; a row
\* wider than a page finds no slot and is sliced out of range in a new page,
\* page.data[64..64 + row_size].
Panics_insert_row(file, columns) ==
    \/ num_pages(file) > 0 /\ row_size(columns) = 0
    \/ HEADER_SIZE + row_size(columns) > PAGE_SIZE

\* Command::Insert, with the panics of load_index and insert_row.
Insert_or_panic(catalog, disk, table_name, fields) ==
    IF table_name \notin DOMAIN catalog.tables
    THEN Outcome(catalog, disk, Err(<<"Table ", table_name, " not found">>))
    ELSE
      LET columns == catalog.tables[table_name]
          disk1 == Pager_open(disk, table_name)
      IN  IF Panics_load_index(columns)
          THEN Outcome(catalog, disk1, Panic(<<"attempt to divide by zero">>))
          ELSE LET prep == validate_and_prepare_row(catalog, table_name, fields)
               IN  IF ~prep.ok
                   THEN Outcome(prep.catalog, disk1, Err(prep.err))
                   ELSE IF row_size(columns) = 0 /\ num_pages(disk1[table_name]) > 0
                   THEN Outcome(prep.catalog, disk1,
                                Panic(<<"attempt to divide by zero">>))
                   ELSE IF Panics_insert_row(disk1[table_name], columns)
                   THEN Outcome(prep.catalog, disk1,
                                Panic(<<"range end index out of range">>))
                   ELSE Insert(catalog, disk, table_name, fields)

\* Command::Select without join or filter, with the panics of load_index and
\* scan_rows.
Select_or_panic(catalog, disk, table_name) ==
    IF table_name \notin DOMAIN catalog.tables
    THEN Outcome(catalog, disk, Err(<<"Table ", table_name, " not found">>))
    ELSE
      LET columns == catalog.tables[table_name]
      IN  IF Panics_load_index(columns) \/ Panics_scan_rows(columns)
          THEN Outcome(catalog, Pager_open(disk, table_name),
                       Panic(<<"attempt to divide by zero">>))
          ELSE Select(catalog, disk, table_name, None, None)

----------------------------------------------------------------------------
(* The state machine: a Database and the files of its data directory.       *)

\* The most live rows a table is filled to, and the highest value a
\* sequence counter is driven to.
MaxRows == 3
MaxSeq == 3

VARIABLES
    catalog,    \* Database.catalog: tables and sequences
    disk,       \* the heap files of the data directory: table name -> pages
    cmd,        \* the command last given to execute
    result,     \* what execute returned for it
    history,    \* per table: the rows inserted since its creation, while no
                \* Update or Delete command was run on it
    inserts,    \* per table with an autoincrement column: the number of
                \* Insert commands run on it since its creation (all) and
                \* of those that returned Ok (ok)
    codec,      \* the row codec on its own: a schema, a row, its bytes and
                \* the row read back from them
    pager_state, \* a Pager on its own: its file byte by byte, its
                \* file_length, and the call last made on it
    page_state, \* a Page on its own: the page and the set_slot call last
                \* made on it
    web,        \* the web front end: the Mutex around the Database and the
                \* handle_query calls in flight
    mutation    \* a Delete or Update taken write by write: its targets, the
                \* heap file it found, and how many targets it has written

\* The Database and its files; the parts taken on their own.
database == <<catalog, disk, cmd, result, history, inserts>>
units == <<codec, pager_state, page_state, web, mutation>>

vars == <<catalog, disk, cmd, result, history, inserts, codec, pager_state, page_state,
          web, mutation>>

CodecIdle == [pc |-> "idle", columns |-> <<>>, row |-> <<>>, bytes |-> <<>>,
              decoded |-> <<>>]

PagerIdle == [pager |-> Pager_of(File_new), call |-> [kind |-> "idle"]]

PageIdle == [page |-> [o \in {} |-> 0], call |-> [kind |-> "idle"]]

\* No Delete or Update is under way.
MutationIdle == [pc |-> "idle"]

\* Mutex::new(db), and no request yet.
WebIdle == [db |-> 0, requests |-> [r \in {} |-> 0], calls |-> <<>>]

\* Database::open on an empty data directory.
DatabaseInit ==
    /\ catalog = Catalog_new
    /\ disk = [n \in {} |-> <<>>]
    /\ cmd = [kind |-> "Open"]
    /\ result = Message(<<>>)
    /\ history = [n \in {} |-> <<>>]
    /\ inserts = [n \in {} |-> [all |-> 0, ok |-> 0]]

\* Database::open on an empty data directory.
Init ==
    /\ catalog = Catalog_new
    /\ disk = [n \in {} |-> <<>>]
    /\ cmd = [kind |-> "Open"]
    /\ result = Message(<<>>)
    /\ history = [n \in {} |-> <<>>]
    /\ inserts = [n \in {} |-> [all |-> 0, ok |-> 0]]
    /\ codec = CodecIdle
    /\ pager_state = PagerIdle
    /\ page_state = PageIdle
    /\ web = WebIdle
    /\ mutation = MutationIdle

HasAuto(columns) == auto_position(columns, 1) >= 0

\* execute(Command::CreateTable {..}), the command drawn from inputs.
DoCreateTable(inputs) ==
    \E c \in inputs :
      LET o == CreateTable(catalog, disk, c.name, c.columns)
      IN  /\ catalog' = o.catalog
          /\ disk' = o.disk
          /\ result' = o.result
          /\ cmd' = c
          /\ history' = IF o.result.kind = "Err" THEN history
                        ELSE MapPut(history, c.name, [clean |-> TRUE, rows |-> <<>>])
          /\ inserts' = IF o.result.kind = "Err" THEN inserts
                        ELSE MapPut(inserts, c.name, [all |-> 0, ok |-> 0])
          /\ UNCHANGED units

\* execute(Command::DropTable {..})
DoDropTable(inputs) ==
    \E c \in inputs :
      LET o == DropTable(catalog, disk, c.table_name)
      IN  /\ catalog' = o.catalog
          /\ disk' = o.disk
          /\ result' = o.result
          /\ cmd' = c
          /\ history' = MapRemove(history, c.table_name)
          /\ inserts' = MapRemove(inserts, c.table_name)
          /\ UNCHANGED units

\* The rows a table holds, for the model's bound on its size.
LiveCount(name) ==
    IF name \in DOMAIN disk /\ name \in DOMAIN catalog.tables
    THEN Len(LiveRefs(disk[name], catalog.tables[name])) ELSE 0

\* execute(Command::Insert {..})
DoInsert(inputs) ==
    \E c \in inputs :
      /\ LiveCount(c.table_name) < MaxRows
      /\ c.table_name \in DOMAIN catalog.sequences
            => catalog.sequences[c.table_name] < MaxSeq
      /\ LET o == Insert(catalog, disk, c.table_name, c.fields)
             ok == o.result.kind # "Err"
         IN  /\ catalog' = o.catalog
             /\ disk' = o.disk
             /\ result' = o.result
             /\ cmd' = c
             /\ history' =
                  IF ok /\ history[c.table_name].clean
                  THEN [history EXCEPT ![c.table_name].rows = Append(@, o.result.text[2])]
                  ELSE history
             /\ inserts' =
                  IF c.table_name \in DOMAIN catalog.tables
                     /\ HasAuto(catalog.tables[c.table_name])
                  THEN [inserts EXCEPT ![c.table_name] =
                           [all |-> @.all + 1, ok |-> IF ok THEN @.ok + 1 ELSE @.ok]]
                  ELSE inserts
             /\ UNCHANGED units

Dirty(name) ==
    IF name \in DOMAIN history
    THEN [history EXCEPT ![name] = [clean |-> FALSE, rows |-> <<>>]]
    ELSE history

\* execute(Command::Delete {..})
DoDelete(inputs) ==
    \E c \in inputs :
      LET o == Delete(catalog, disk, c.table_name, c.filter)
      IN  /\ catalog' = o.catalog
          /\ disk' = o.disk
          /\ result' = o.result
          /\ cmd' = c
          /\ history' = Dirty(c.table_name)
          /\ UNCHANGED <<inserts, units>>

\* execute(Command::Update {..})
DoUpdate(inputs) ==
    \E c \in inputs :
      LET o == Update(catalog, disk, c.table_name, c.assignments, c.filter)
      IN  /\ catalog' = o.catalog
          /\ disk' = o.disk
          /\ result' = o.result
          /\ cmd' = c
          /\ history' = Dirty(c.table_name)
          /\ UNCHANGED <<inserts, units>>

\* execute(Command::Select {..})
DoSelect(inputs) ==
    \E c \in inputs :
      LET o == Select(catalog, disk, c.table_name, c.join, c.filter)
      IN  /\ catalog' = o.catalog
          /\ disk' = o.disk
          /\ result' = o.result
          /\ cmd' = c
          /\ UNCHANGED <<history, inserts, units>>

\* execute(Command::DropTable {..}) on a table whose heap file exists and
\* cannot be removed.
DoDropTableIoError(inputs) ==
    \E c \in inputs :
      /\ c.table_name \in DOMAIN catalog.tables
      /\ c.table_name \in DOMAIN disk
      /\ LET o == DropTable_io_error(catalog, disk, c.table_name)
         IN  /\ catalog' = o.catalog
             /\ disk' = o.disk
             /\ result' = o.result
             /\ cmd' = c
             /\ history' = MapRemove(history, c.table_name)
             /\ inserts' = MapRemove(inserts, c.table_name)
             /\ UNCHANGED units

\* The process ends and Database::open is run again on the data directory.
DoReopen ==
    /\ catalog' = load_or_create(catalog.file)
    /\ cmd' = [kind |-> "Open"]
    /\ result' = Message(<<>>)
    /\ UNCHANGED <<disk, history, inserts, units>>

----------------------------------------------------------------------------
(* The commands (sql/mod.rs: Command) the specifications draw from.         *)

Cmd_CreateTable(n, cols) == [kind |-> "CreateTable", name |-> n, columns |-> cols]
Cmd_DropTable(t) == [kind |-> "DropTable", table_name |-> t]
Cmd_Insert(t, fields) == [kind |-> "Insert", table_name |-> t, fields |-> fields]
Cmd_Delete(t, f) == [kind |-> "Delete", table_name |-> t, filter |-> f]
Cmd_Update(t, a, f) ==
    [kind |-> "Update", table_name |-> t, assignments |-> a, filter |-> f]
Cmd_Select(t, j, f) == [kind |-> "Select", table_name |-> t, join |-> j, filter |-> f]

\* 'a', 'abc', '1', ''
Str_a == <<97>>
Str_abc == <<97, 98, 99>>
Str_1 == <<49>>
Str_empty == <<>>

\* CREATE TABLE users (id INT PRIMARY KEY, name VARCHAR(2), bio VARCHAR(2010)):
\* 2016 bytes a row, two rows a page.
UsersColumns ==
    << Column("id", DataType_Integer, TRUE, FALSE),
       Column("name", DataType_Text(2), FALSE, FALSE),
       Column("bio", DataType_Text(2010), FALSE, FALSE) >>

\* CREATE TABLE users (id INT, ok BOOLEAN): 5 bytes a row.
FlagsColumns ==
    << Column("id", DataType_Integer, FALSE, FALSE),
       Column("ok", DataType_Boolean, FALSE, FALSE) >>

\* CREATE TABLE orders (oid INT PRIMARY KEY AUTOINCREMENT, uid INT)
OrdersColumns ==
    << Column("oid", DataType_Integer, TRUE, TRUE),
       Column("uid", DataType_Integer, FALSE, FALSE) >>

\* CREATE TABLE .. (id INT PRIMARY KEY, name VARCHAR(4)): 8 bytes a row.
PairsColumns ==
    << Column("id", DataType_Integer, TRUE, FALSE),
       Column("name", DataType_Text(4), FALSE, FALSE) >>

Where(c, op, v) == Some(Filter(c, op, v))

\* One table, users, created with either column list.
Creates == { Cmd_CreateTable("users", UsersColumns),
             Cmd_CreateTable("users", FlagsColumns) }

Drops == { Cmd_DropTable("users") }

Inserts ==
    { Cmd_Insert("users", << Field_Integer(1), Field_Text(Str_a), Field_Text(Str_empty) >>),
      Cmd_Insert("users", << Field_Integer(2), Field_Text(Str_abc), Field_Text(Str_empty) >>),
      Cmd_Insert("users", << Field_Text(Str_1), Field_Text(Str_a), Field_Text(Str_empty) >>),
      Cmd_Insert("users", << Field_Integer(1), Field_Boolean(TRUE) >>) }

Deletes ==
    { Cmd_Delete("users", None),
      Cmd_Delete("users", Where("id", "Eq", Field_Integer(1))),
      Cmd_Delete("users", Where("id", "GreaterThan", Field_Integer(1))) }

Updates ==
    { Cmd_Update("users", << <<"name", Field_Text(Str_abc)>> >>, None),
      Cmd_Update("users", << <<"name", Field_Text(Str_abc)>> >>,
                 Where("id", "Eq", Field_Integer(1))),
      Cmd_Update("users", << <<"id", Field_Integer(2)>> >>,
                 Where("id", "Eq", Field_Integer(1))),
      Cmd_Update("users", << <<"name", Field_Text(Str_abc)>>, <<"id", Field_Integer(2)>> >>,
                 None),
      Cmd_Update("users", << <<"nick", Field_Integer(1)>>, <<"id", Field_Integer(2)>> >>,
                 None) }

Selects ==
    { Cmd_Select("users", None, None),
      Cmd_Select("users", None, Where("id", "Eq", Field_Integer(1))),
      Cmd_Select("users", None, Where("id", "Eq", Field_Integer(2))),
      Cmd_Select("users", None, Where("id", "Eq", Field_Text(Str_1))),
      Cmd_Select("users", None, Where("name", "Eq", Field_Text(Str_a))) }

Next ==
    \/ DoCreateTable(Creates)
    \/ DoDropTable(Drops)
    \/ DoInsert(Inserts)
    \/ DoDelete(Deletes)
    \/ DoUpdate(Updates)
    \/ DoSelect(Selects)

Spec == Init /\ [][Next]_vars

----------------------------------------------------------------------------
(* The row codec on its own: Row::serialize, then Row::deserialize of the   *)
(* bytes, for rows whose arity and tags match the schema.                   *)

Str_ab == <<97, 98>>
\* 'a', a zero byte, 'b'
Str_a0b == <<97, 0, 98>>
\* 'e' with acute accent (two bytes), alone and after 'a'
Str_e_acute == <<195, 169>>
Str_ae_acute == <<97, 195, 169>>

CodecSchemas ==
    { << Column("id", DataType_Integer, TRUE, FALSE),
         Column("ok", DataType_Boolean, FALSE, FALSE),
         Column("name", DataType_Text(2), FALSE, FALSE) >>,
      << Column("name", DataType_Text(3), FALSE, FALSE),
         Column("id", DataType_Integer, FALSE, FALSE) >> }

CodecFields ==
    {Field_Integer(v) : v \in {0, 1, -1, 258, 2147483647, -2147483647 - 1}}
    \cup {Field_Boolean(v) : v \in BOOLEAN}
    \cup {Field_Text(v) : v \in {Str_empty, Str_a, Str_ab, Str_abc, Str_a0b,
                                 Str_e_acute, Str_ae_acute}}

CodecRows(columns) ==
    {row \in [1..Len(columns) -> CodecFields] : WellTyped(row, columns)}

InitCodec ==
    /\ catalog = Catalog_new
    /\ disk = [n \in {} |-> <<>>]
    /\ cmd = [kind |-> "Open"]
    /\ result = Message(<<>>)
    /\ history = [n \in {} |-> <<>>]
    /\ inserts = [n \in {} |-> [all |-> 0, ok |-> 0]]
    /\ \E columns \in CodecSchemas : \E row \in CodecRows(columns) :
          codec = [pc |-> "row", columns |-> columns, row |-> row,
                   bytes |-> <<>>, decoded |-> <<>>]
    /\ pager_state = PagerIdle
    /\ page_state = PageIdle
    /\ web = WebIdle
    /\ mutation = MutationIdle

\* row.serialize(&schema)
DoSerialize ==
    /\ codec.pc = "row"
    /\ codec' = [codec EXCEPT !.pc = "bytes",
                              !.bytes = serialize(codec.row, codec.columns)]
    /\ UNCHANGED <<database, pager_state, page_state, web, mutation>>

\* Row::deserialize(&bytes, &schema)
DoDeserialize ==
    /\ codec.pc = "bytes"
    /\ codec' = [codec EXCEPT !.pc = "decoded",
                              !.decoded = deserialize(codec.bytes, codec.columns)]
    /\ UNCHANGED <<database, pager_state, page_state, web, mutation>>

NextCodec ==
    \/ DoSerialize
    \/ DoDeserialize

SpecCodec == InitCodec /\ [][NextCodec]_vars

----------------------------------------------------------------------------
(* One table with an autoincrement column.                                  *)

CreatesOrders == { Cmd_CreateTable("orders", OrdersColumns) }

DropsOrders == { Cmd_DropTable("orders") }

\* uid alone; oid and uid; a Text for uid; no field at all
InsertsOrders ==
    { Cmd_Insert("orders", << Field_Integer(1) >>),
      Cmd_Insert("orders", << Field_Integer(7), Field_Integer(2) >>),
      Cmd_Insert("orders", << Field_Text(Str_a) >>),
      Cmd_Insert("orders", << >>) }

DeletesOrders ==
    { Cmd_Delete("orders", None),
      Cmd_Delete("orders", Where("oid", "Eq", Field_Integer(1))) }

UpdatesOrders ==
    { Cmd_Update("orders", << <<"uid", Field_Integer(2)>> >>,
                 Where("uid", "Eq", Field_Integer(1))) }

SelectsOrders ==
    { Cmd_Select("orders", None, None),
      Cmd_Select("orders", None, Where("oid", "Eq", Field_Integer(2))) }

NextOrders ==
    \/ DoCreateTable(CreatesOrders)
    \/ DoDropTable(DropsOrders)
    \/ DoInsert(InsertsOrders)
    \/ DoDelete(DeletesOrders)
    \/ DoUpdate(UpdatesOrders)
    \/ DoSelect(SelectsOrders)

SpecOrders == Init /\ [][NextOrders]_vars

----------------------------------------------------------------------------
(* One table with an autoincrement column, commands that fail, a heap file  *)
(* that cannot be removed, and the database closed and opened again.        *)

DropsFaults == { Cmd_DropTable("orders"), Cmd_DropTable("carts") }

\* accepted; of the wrong type; into a table that does not exist
InsertsFaults ==
    { Cmd_Insert("orders", << Field_Integer(1) >>),
      Cmd_Insert("orders", << Field_Text(Str_a) >>),
      Cmd_Insert("carts", << Field_Integer(1) >>) }

DeletesFaults == { Cmd_Delete("carts", None) }

\* of the primary key
UpdatesFaults ==
    { Cmd_Update("orders", << <<"oid", Field_Integer(5)>> >>, None) }

\* a scan; a join on a column that does not exist
SelectsFaults ==
    { Cmd_Select("orders", None, None),
      Cmd_Select("orders", Some(JoinClause("total", "orders", "oid")), None) }

NextFaults ==
    \/ DoCreateTable(CreatesOrders)
    \/ DoDropTable(DropsFaults)
    \/ DoDropTableIoError(DropsOrders)
    \/ DoInsert(InsertsFaults)
    \/ DoDelete(DeletesFaults)
    \/ DoUpdate(UpdatesFaults)
    \/ DoSelect(SelectsFaults)
    \/ DoReopen

SpecFaults == Init /\ [][NextFaults]_vars

----------------------------------------------------------------------------
(* One table name created, dropped and created again, with either of two   *)
(* schemas.                                                                 *)

CreatesAgain ==
    { Cmd_CreateTable("orders", OrdersColumns),
      Cmd_CreateTable("orders", PairsColumns) }

\* For the first schema (oid generated): uid alone; a Text in the place of
\* oid; a Text for uid; no field; three fields.  For the second: one field
\* too few; the fields in the wrong order; a row; none; one too many.
InsertsAgain ==
    { Cmd_Insert("orders", << Field_Integer(1) >>),
      Cmd_Insert("orders", << Field_Text(Str_a), Field_Integer(1) >>),
      Cmd_Insert("orders", << Field_Integer(1), Field_Text(Str_a) >>),
      Cmd_Insert("orders", << >>),
      Cmd_Insert("orders", << Field_Integer(1), Field_Integer(2), Field_Integer(3) >>) }

DeletesAgain == { Cmd_Delete("orders", None) }

SelectsAgain == { Cmd_Select("orders", None, None) }

NextAgain ==
    \/ DoCreateTable(CreatesAgain)
    \/ DoDropTable(DropsOrders)
    \/ DoInsert(InsertsAgain)
    \/ DoDelete(DeletesAgain)
    \/ DoSelect(SelectsAgain)

SpecAgain == Init /\ [][NextAgain]_vars

----------------------------------------------------------------------------
(* Schemas that CreateTable accepts unexamined, and the panics of the       *)
(* storage layer on them.                                                   *)

\* execute(Command::Insert {..}) on any schema of the catalog.
DoInsertOrPanic(inputs) ==
    \E c \in inputs :
      LET o == Insert_or_panic(catalog, disk, c.table_name, c.fields)
      IN  /\ c.table_name \in DOMAIN catalog.sequences
                => catalog.sequences[c.table_name] < MaxSeq
          /\ (o.result.kind = "Message" /\ c.table_name \in DOMAIN disk)
                => LiveCount(c.table_name) < MaxRows
          /\ catalog' = o.catalog
          /\ disk' = o.disk
          /\ result' = o.result
          /\ cmd' = c
          /\ history' =
               IF o.result.kind = "Message" /\ history[c.table_name].clean
               THEN [history EXCEPT ![c.table_name].rows = Append(@, o.result.text[2])]
               ELSE history
          /\ inserts' =
               IF c.table_name \in DOMAIN catalog.tables
                  /\ HasAuto(catalog.tables[c.table_name])
               THEN [inserts EXCEPT ![c.table_name] =
                        [all |-> @.all + 1,
                         ok |-> IF o.result.kind = "Message" THEN @.ok + 1 ELSE @.ok]]
               ELSE inserts
          /\ UNCHANGED units

\* execute(Command::Select {..}) on any schema of the catalog.
DoSelectOrPanic(inputs) ==
    \E c \in inputs :
      LET o == Select_or_panic(catalog, disk, c.table_name)
      IN  /\ catalog' = o.catalog
          /\ disk' = o.disk
          /\ result' = o.result
          /\ cmd' = c
          /\ UNCHANGED <<history, inserts, units>>

\* CREATE TABLE t (): no column
EmptyColumns == << >>

\* CREATE TABLE t (a VARCHAR(0) PRIMARY KEY): a key of no byte
NoBytesColumns == << Column("a", DataType_Text(0), TRUE, FALSE) >>

\* CREATE TABLE t (a VARCHAR(5000)): a row wider than a page
WideColumns == << Column("a", DataType_Text(5000), FALSE, FALSE) >>

\* CREATE TABLE t (a INT PRIMARY KEY, b INT PRIMARY KEY)
TwoKeysColumns ==
    << Column("a", DataType_Integer, TRUE, FALSE),
       Column("b", DataType_Integer, TRUE, FALSE) >>

\* CREATE TABLE t (a VARCHAR(4) AUTOINCREMENT, b INT AUTOINCREMENT)
TwoCountersColumns ==
    << Column("a", DataType_Text(4), FALSE, TRUE),
       Column("b", DataType_Integer, FALSE, TRUE) >>

CreatesSchemas ==
    { Cmd_CreateTable("t", EmptyColumns),
      Cmd_CreateTable("t", NoBytesColumns),
      Cmd_CreateTable("t", WideColumns),
      Cmd_CreateTable("t", TwoKeysColumns),
      Cmd_CreateTable("t", TwoCountersColumns),
      Cmd_CreateTable("orders", OrdersColumns) }

DropsSchemas == { Cmd_DropTable("t"), Cmd_DropTable("orders") }

InsertsSchemas ==
    { Cmd_Insert("t", << >>),
      Cmd_Insert("t", << Field_Text(Str_a) >>),
      Cmd_Insert("t", << Field_Integer(1), Field_Integer(2) >>),
      Cmd_Insert("orders", << Field_Integer(1) >>) }

SelectsSchemas ==
    { Cmd_Select("t", None, None), Cmd_Select("orders", None, None) }

NextSchemas ==
    \/ DoCreateTable(CreatesSchemas)
    \/ DoDropTable(DropsSchemas)
    \/ DoInsertOrPanic(InsertsSchemas)
    \/ DoSelectOrPanic(SelectsSchemas)

SpecSchemas == Init /\ [][NextSchemas]_vars

----------------------------------------------------------------------------
(* One Page: set_slot on bits of the first bytes, of a byte behind the      *)
(* header and of the last byte, and a one-byte row written behind the       *)
(* header.                                                                  *)

TestSlots == {0, 1, 7, 8, 9, 513, 8 * PAGE_SIZE - 1}

TestRows == { <<255>>, <<2>>, <<0>> }

\* page.set_slot(slot_index, occupied)
DoSetSlot ==
    \E i \in TestSlots, b \in BOOLEAN :
      /\ page_state' =
           [page |-> set_slot(page_state.page, i, b),
            call |-> [kind |-> "set_slot", slot_index |-> i, occupied |-> b]]
      /\ UNCHANGED <<database, codec, pager_state, web, mutation>>

\* page.data[offset..offset + 1].copy_from_slice(row), offset the one of
\* slot 0 of one-byte rows.
DoCopyRow ==
    \E bytes \in TestRows :
      /\ page_state' =
           [page |-> copy_from_slice(page_state.page, get_row_offset(0, 1), bytes),
            call |-> [kind |-> "copy_from_slice", bytes |-> bytes]]
      /\ UNCHANGED <<database, codec, pager_state, web, mutation>>

NextPage == DoSetSlot \/ DoCopyRow

SpecPage == Init /\ [][NextPage]_vars

----------------------------------------------------------------------------
(* One Pager on one file: pages written at and past the end, read back,     *)
(* and the file opened again, or a new one in its place.                    *)

MaxPages == 3

\* a page of zeros; one with slot 0 set and a row behind the header; one
\* whose last byte is set
TestPages ==
    { Page_new,
      copy_from_slice(set_slot(Page_new, 0, TRUE), HEADER_SIZE, <<7, 0, 9>>),
      SetByte(Page_new, PAGE_SIZE - 1, 255) }

\* pager.write_page(page_index, &page)
DoWritePage ==
    \E i \in 0..(MaxPages - 1), p \in TestPages :
      /\ pager_state' =
           [pager |-> Pager_write_page(pager_state.pager, i, p),
            call |-> [kind |-> "write_page", page_index |-> i, page |-> p]]
      /\ UNCHANGED <<database, codec, page_state, web, mutation>>

\* pager.read_page(page_index)
DoReadPage ==
    \E i \in 0..MaxPages :
      /\ pager_state' =
           [pager |-> pager_state.pager,
            call |-> [kind |-> "read_page", page_index |-> i,
                      page |-> Pager_read_page(pager_state.pager, i)]]
      /\ UNCHANGED <<database, codec, page_state, web, mutation>>

\* Pager::open(path), on the path of the file or on one where no file is:
\* .create(true) makes the empty file.
DoOpenPager ==
    \E created \in BOOLEAN :
      /\ pager_state' =
           [pager |-> Pager_of(IF created THEN File_new ELSE pager_state.pager.file),
            call |-> [kind |-> "open", created |-> created]]
      /\ UNCHANGED <<database, codec, page_state, web, mutation>>

NextPager == DoWritePage \/ DoReadPage \/ DoOpenPager

SpecPager == Init /\ [][NextPager]_vars

----------------------------------------------------------------------------
(* row_matches_filter on its own: a schema, a row of it and a filter, then  *)
(* the call.                                                                *)

FilterColumns ==
    << Column("id", DataType_Integer, TRUE, FALSE),
       Column("ok", DataType_Boolean, FALSE, FALSE),
       Column("name", DataType_Text(3), FALSE, FALSE) >>

FilterFields ==
    {Field_Integer(v) : v \in {-1, 0, 1}}
    \cup {Field_Boolean(v) : v \in BOOLEAN}
    \cup {Field_Text(v) : v \in {Str_empty, Str_a, Str_1}}

FilterRows ==
    {row \in [1..Len(FilterColumns) -> FilterFields] : WellTyped(row, FilterColumns)}

Operators == {"Eq", "NotEq", "GreaterThan", "LessThan"}

\* the columns of the schema and one that is not of it
FilterNames == {"id", "ok", "name", "total"}

InitFilter ==
    /\ DatabaseInit
    /\ \E row \in FilterRows, c \in FilterNames, op \in Operators, v \in FilterFields :
          codec = [pc |-> "row", columns |-> FilterColumns, row |-> row,
                   filter |-> Filter(c, op, v), matches |-> FALSE]
    /\ pager_state = PagerIdle
    /\ page_state = PageIdle
    /\ web = WebIdle
    /\ mutation = MutationIdle

\* Row::row_matches_filter(&row, &filter, &schema)
DoMatch ==
    /\ codec.pc = "row"
    /\ codec' = [codec EXCEPT
                    !.pc = "matched",
                    !.matches = row_matches_filter(codec.row, codec.filter,
                                                   codec.columns)]
    /\ UNCHANGED <<database, pager_state, page_state, web, mutation>>

NextFilter == DoMatch

SpecFilter == InitFilter /\ [][NextFilter]_vars

----------------------------------------------------------------------------
(* One table of two rows a page, its rows deleted and updated under         *)
(* filters.                                                                 *)

InsertsRows ==
    { Cmd_Insert("users", << Field_Integer(1), Field_Text(Str_a), Field_Text(Str_empty) >>),
      Cmd_Insert("users", << Field_Integer(2), Field_Text(Str_ab), Field_Text(Str_a) >>) }

\* every row; the row of a key; the rows of another name; a column that
\* does not exist
DeletesRows ==
    { Cmd_Delete("users", None),
      Cmd_Delete("users", Where("id", "Eq", Field_Integer(1))),
      Cmd_Delete("users", Where("name", "NotEq", Field_Text(Str_a))),
      Cmd_Delete("users", Where("total", "Eq", Field_Integer(1))) }

\* a Text longer than its column; two columns of every row
UpdatesRows ==
    { Cmd_Update("users", << <<"name", Field_Text(Str_abc)>> >>,
                 Where("id", "GreaterThan", Field_Integer(1))),
      Cmd_Update("users", << <<"bio", Field_Text(Str_a)>>, <<"name", Field_Text(Str_a)>> >>,
                 None) }

NextRows ==
    \/ DoCreateTable({ Cmd_CreateTable("users", UsersColumns) })
    \/ DoInsert(InsertsRows)
    \/ DoDelete(DeletesRows)
    \/ DoUpdate(UpdatesRows)

SpecRows == Init /\ [][NextRows]_vars

----------------------------------------------------------------------------
(* Requests of the web front end, each a task of its own.                   *)

MaxRequests == 2

\* What parse_sql makes of the body of a request: commands, or an error.
Parsed(commands) == [ok |-> TRUE, commands |-> commands]
ParseError == [ok |-> FALSE, commands |-> <<>>]

Payloads ==
    { Parsed(<< Cmd_CreateTable("pairs", PairsColumns),
                Cmd_Insert("pairs", << Field_Integer(1), Field_Text(Str_a) >>) >>),
      Parsed(<< Cmd_Insert("pairs", << Field_Integer(2), Field_Text(Str_a) >>),
                Cmd_Select("pairs", None, None) >>),
      ParseError }

\* The positions of handle_query at which it holds the MutexGuard.
Holding == {"parse", "loop", "execute", "respond"}

SetRequest(r, fields) == [web EXCEPT !.requests[r] = fields @@ @]

\* POST /query: a task starts handle_query, which calls lock().
DoPost(payloads) ==
    \E r \in (1..MaxRequests) \ DOMAIN web.requests, p \in payloads :
      /\ web' = [web EXCEPT !.requests =
                    (r :> [pc |-> "lock", payload |-> p, commands |-> <<>>,
                           next |-> 1, results |-> <<>>]) @@ @]
      /\ UNCHANGED <<database, codec, pager_state, page_state, mutation>>

\* `let mut db = state.db.lock().unwrap();`
DoLock ==
    \E r \in DOMAIN web.requests :
      /\ web.requests[r].pc = "lock"
      /\ LET l == Mutex_lock(web.db, r)
         IN  /\ l.acquired
             /\ web' = [web EXCEPT !.db = l.holder, !.requests[r].pc = "parse"]
      /\ UNCHANGED <<database, codec, pager_state, page_state, mutation>>

\* `match parse_sql(&payload)`
DoParse ==
    \E r \in DOMAIN web.requests :
      /\ web.requests[r].pc = "parse"
      /\ web' = IF web.requests[r].payload.ok
                THEN SetRequest(r, [pc |-> "loop",
                                    commands |-> web.requests[r].payload.commands])
                ELSE SetRequest(r, [pc |-> "respond",
                                    results |-> << Message(<<"SQL Error: ">>) >>])
      /\ UNCHANGED <<database, codec, pager_state, page_state, mutation>>

\* `for cmd in commands { match db.execute(cmd)`: the call is made
DoExecuteBegin ==
    \E r \in DOMAIN web.requests :
      LET q == web.requests[r] IN
      /\ q.pc = "loop"
      /\ q.next <= Len(q.commands)
      /\ web' = [SetRequest(r, [pc |-> "execute"]) EXCEPT
                    !.calls = Append(@, <<r, "begin">>)]
      /\ UNCHANGED <<database, codec, pager_state, page_state, mutation>>

\* .. and returns; its result is pushed.
DoExecuteEnd ==
    \E r \in DOMAIN web.requests :
      LET q == web.requests[r] IN
      /\ q.pc = "execute"
      /\ LET c == q.commands[q.next]
             o == execute(catalog, disk, c)
         IN  /\ catalog' = o.catalog
             /\ disk' = o.disk
             /\ cmd' = c
             /\ result' = o.result
             /\ web' = [SetRequest(r, [pc |-> "loop", next |-> q.next + 1,
                                       results |-> Append(q.results,
                                                          handle_result(o.result))])
                          EXCEPT !.calls = Append(@, <<r, "end">>)]
      /\ UNCHANGED <<history, inserts, codec, pager_state, page_state, mutation>>

\* `Json(results)`, or the answer to a parse error; the guard is dropped.
DoRespond ==
    \E r \in DOMAIN web.requests :
      LET q == web.requests[r] IN
      /\ \/ q.pc = "respond"
         \/ q.pc = "loop" /\ q.next > Len(q.commands)
      /\ web' = [SetRequest(r, [pc |-> "done"]) EXCEPT !.db = Mutex_unlock(@)]
      /\ UNCHANGED <<database, codec, pager_state, page_state, mutation>>

NextWeb ==
    \/ DoPost(Payloads)
    \/ DoLock
    \/ DoParse
    \/ DoExecuteBegin
    \/ DoExecuteEnd
    \/ DoRespond

SpecWeb == Init /\ [][NextWeb]_vars

----------------------------------------------------------------------------
(* A Delete or an Update taken write by write, any write of which may fail. *)

\* Step 1 of Delete and of Update: the table is opened and the targets are
\* collected.
DoBeginMutation(inputs) ==
    \E c \in inputs :
      /\ mutation.pc = "idle"
      /\ c.table_name \in DOMAIN catalog.tables
      /\ LET disk1 == Pager_open(disk, c.table_name)
             columns == catalog.tables[c.table_name]
         IN  /\ disk' = disk1
             /\ mutation' = [pc |-> "running", command |-> c,
                             before |-> disk1[c.table_name],
                             targets |-> Targets(disk1[c.table_name], columns, c.filter),
                             written |-> 0]
      /\ cmd' = c
      /\ history' = Dirty(c.table_name)
      /\ UNCHANGED <<catalog, result, inserts, codec, pager_state, page_state, web>>

\* One pass of step 2 whose page write succeeds (or whose assignment is
\* refused, which ends the command).
DoWriteTarget ==
    /\ mutation.pc = "running"
    /\ mutation.written < Len(mutation.targets)
    /\ LET t == mutation.command.table_name
           m == mutate_target(disk[t], catalog.tables[t], mutation.command,
                              next_target(mutation.targets, mutation.written))
       IN  IF m.ok
           THEN /\ disk' = [disk EXCEPT ![t] = m.file]
                /\ mutation' = [mutation EXCEPT !.written = @ + 1]
                /\ UNCHANGED result
           ELSE /\ result' = Err(m.err)
                /\ mutation' = [mutation EXCEPT !.pc = "failed"]
                /\ UNCHANGED disk
    /\ UNCHANGED <<catalog, cmd, history, inserts, codec, pager_state, page_state, web>>

\* One pass of step 2 whose page write fails: `.map_err(|e| e.to_string())?`
DoWriteFails ==
    /\ mutation.pc = "running"
    /\ mutation.written < Len(mutation.targets)
    /\ result' = Err(<<"io error", "write_page">>)
    /\ mutation' = [mutation EXCEPT !.pc = "failed"]
    /\ UNCHANGED <<catalog, disk, cmd, history, inserts, codec, pager_state,
                   page_state, web>>

\* The loop is over: Ok(Message(..)).
DoEndMutation ==
    /\ mutation.pc = "running"
    /\ mutation.written = Len(mutation.targets)
    /\ result' = mutation_result(mutation.command, mutation.written)
    /\ mutation' = [mutation EXCEPT !.pc = "done"]
    /\ UNCHANGED <<catalog, disk, cmd, history, inserts, codec, pager_state,
                   page_state, web>>

\* execute has returned to its caller.
DoReturn ==
    /\ mutation.pc \in {"done", "failed"}
    /\ mutation' = MutationIdle
    /\ UNCHANGED <<database, codec, pager_state, page_state, web>>

\* three rows on two pages, two of them of the name 'a'
InsertsSteps ==
    { Cmd_Insert("users", << Field_Integer(1), Field_Text(Str_a), Field_Text(Str_empty) >>),
      Cmd_Insert("users", << Field_Integer(2), Field_Text(Str_1), Field_Text(Str_a) >>) }

\* the rows of a name
DeletesSteps ==
    { Cmd_Delete("users", Where("name", "Eq", Field_Text(Str_a))) }

\* a new name for the rows of a name, which then pass the filter no more;
\* the primary key
UpdatesSteps ==
    { Cmd_Update("users", << <<"name", Field_Text(Str_1)>> >>,
                 Where("name", "Eq", Field_Text(Str_a))),
      Cmd_Update("users", << <<"id", Field_Integer(5)>> >>, None) }

NextSteps ==
    \/ mutation.pc = "idle" /\ DoCreateTable({ Cmd_CreateTable("users", UsersColumns) })
    \/ mutation.pc = "idle" /\ DoInsert(InsertsSteps)
    \/ DoBeginMutation(DeletesSteps \cup UpdatesSteps)
    \/ DoWriteTarget
    \/ DoWriteFails
    \/ DoEndMutation
    \/ DoReturn

SpecSteps == Init /\ [][NextSteps]_vars

----------------------------------------------------------------------------
(* Scans of a table with holes, and of a table of five bytes a row.         *)

CreatesScan ==
    { Cmd_CreateTable("users", UsersColumns),
      Cmd_CreateTable("flags", FlagsColumns) }

InsertsScan ==
    { Cmd_Insert("users", << Field_Integer(1), Field_Text(Str_a), Field_Text(Str_empty) >>),
      Cmd_Insert("users", << Field_Integer(2), Field_Text(Str_abc), Field_Text(Str_a) >>),
      Cmd_Insert("flags", << Field_Integer(1), Field_Boolean(TRUE) >>) }

DeletesScan ==
    { Cmd_Delete("users", Where("id", "Eq", Field_Integer(1))) }

SelectsScan ==
    { Cmd_Select("users", None, None),
      Cmd_Select("flags", None, None) }

NextScan ==
    \/ DoCreateTable(CreatesScan)
    \/ DoInsert(InsertsScan)
    \/ DoDelete(DeletesScan)
    \/ DoSelect(SelectsScan)

SpecScan == Init /\ [][NextScan]_vars

----------------------------------------------------------------------------
(* Selects by the primary key, with filter values of every tag.             *)

InsertsLookup ==
    { Cmd_Insert("users", << Field_Integer(1), Field_Text(Str_a), Field_Text(Str_empty) >>),
      Cmd_Insert("users", << Field_Integer(2), Field_Text(Str_abc), Field_Text(Str_a) >>) }

DeletesLookup ==
    { Cmd_Delete("users", Where("id", "Eq", Field_Integer(1))) }

\* id = 1, id = 2, id = '1', id = TRUE
SelectsLookup ==
    { Cmd_Select("users", None, Where("id", "Eq", Field_Integer(1))),
      Cmd_Select("users", None, Where("id", "Eq", Field_Integer(2))),
      Cmd_Select("users", None, Where("id", "Eq", Field_Text(Str_1))),
      Cmd_Select("users", None, Where("id", "Eq", Field_Boolean(TRUE))) }

NextLookup ==
    \/ DoCreateTable({ Cmd_CreateTable("users", UsersColumns) })
    \/ DoInsert(InsertsLookup)
    \/ DoDelete(DeletesLookup)
    \/ DoSelect(SelectsLookup)

SpecLookup == Init /\ [][NextLookup]_vars

----------------------------------------------------------------------------
(* A table whose generated column is its primary key, between two Integer   *)
(* columns.                                                                 *)

\* CREATE TABLE ledger (x INT, oid INT PRIMARY KEY AUTOINCREMENT, uid INT)
LedgerColumns ==
    << Column("x", DataType_Integer, FALSE, FALSE),
       Column("oid", DataType_Integer, TRUE, TRUE),
       Column("uid", DataType_Integer, FALSE, FALSE) >>

\* x and uid given, oid left out
InsertsKeys ==
    { Cmd_Insert("ledger", << Field_Integer(0), Field_Integer(2) >>) }

DeletesKeys ==
    { Cmd_Delete("ledger", Where("oid", "Eq", Field_Integer(1))) }

\* a Text for x; the primary key
UpdatesKeys ==
    { Cmd_Update("ledger", << <<"x", Field_Text(Str_a)>> >>, None),
      Cmd_Update("ledger", << <<"oid", Field_Integer(7)>> >>, None) }

NextKeys ==
    \/ DoCreateTable({ Cmd_CreateTable("ledger", LedgerColumns) })
    \/ DoInsert(InsertsKeys)
    \/ DoDelete(DeletesKeys)
    \/ DoUpdate(UpdatesKeys)
    \/ DoDropTableIoError({ Cmd_DropTable("ledger") })

SpecKeys == Init /\ [][NextKeys]_vars

----------------------------------------------------------------------------
(* parse_sql: from the statements of the SQL parser to commands.  The       *)
(* statements are given as syntax trees, the text-to-tree step belongs to   *)
(* the sqlparser crate.                                                     *)

Expr_Identifier(v) == [kind |-> "Identifier", value |-> v]
Expr_CompoundIdentifier(parts) == [kind |-> "CompoundIdentifier", parts |-> parts]
Expr_Number(n) == [kind |-> "Value", value |-> [kind |-> "Number", n |-> n]]
Expr_SingleQuotedString(s) ==
    [kind |-> "Value", value |-> [kind |-> "SingleQuotedString", s |-> s]]
Expr_Boolean(b) == [kind |-> "Value", value |-> [kind |-> "Boolean", b |-> b]]
Expr_Null == [kind |-> "Value", value |-> [kind |-> "Null"]]
Expr_BinaryOp(l, op, r) == [kind |-> "BinaryOp", left |-> l, op |-> op, right |-> r]
Expr_Nested(e) == [kind |-> "Nested", expr |-> e]
Expr_UnaryOp(op, e) == [kind |-> "UnaryOp", op |-> op, expr |-> e]
Expr_IsNull(e) == [kind |-> "IsNull", expr |-> e]
Expr_InList(e, list) == [kind |-> "InList", expr |-> e, list |-> list]
Expr_Between(e, low, high) == [kind |-> "Between", expr |-> e, low |-> low, high |-> high]

Statement_CreateTable(name, columns) ==
    [kind |-> "CreateTable", name |-> name, columns |-> columns]
Statement_Update(table, assignments, selection) ==
    [kind |-> "Update", table |-> table, assignments |-> assignments,
     selection |-> selection]
Statement_Insert(table_name, source) ==
    [kind |-> "Insert", table_name |-> table_name, source |-> source]
Statement_Query(body) == [kind |-> "Query", body |-> body]
Statement_Delete(table, selection) ==
    [kind |-> "Delete", table |-> table, selection |-> selection]
Statement_Drop(name) == [kind |-> "Drop", name |-> name]

SetExpr_Select(from, selection) ==
    [kind |-> "Select", from |-> from, selection |-> selection]
SetExpr_Values(rows) == [kind |-> "Values", rows |-> rows]
TableFactor_Table(name) == [kind |-> "Table", name |-> name]
TableFactor_Derived == [kind |-> "Derived"]
TableWithJoins(relation, joins) == [relation |-> relation, joins |-> joins]
Join(relation, join_operator) == [relation |-> relation, join_operator |-> join_operator]
JoinOperator_Inner_On(e) == [kind |-> "Inner", constraint |-> [kind |-> "On", expr |-> e]]
JoinOperator_LeftOuter_On(e) ==
    [kind |-> "LeftOuter", constraint |-> [kind |-> "On", expr |-> e]]
Assignment(id, value) == [id |-> id, value |-> value]
ColumnDef(name, data_type, options) ==
    [name |-> name, data_type |-> data_type, options |-> options]

ParseOk(commands) == [ok |-> TRUE, commands |-> commands, err |-> ""]
ParseErr(text) == [ok |-> FALSE, commands |-> <<>>, err |-> text]

\* The value of a string of decimal digits of at most nine characters.
RECURSIVE digits_value(_)
digits_value(s) ==
    IF s = <<>> THEN 0
    ELSE 10 * digits_value(SubSeq(s, 1, Len(s) - 1)) + (s[Len(s)] - 48)

RECURSIVE trim_zeros(_)
trim_zeros(s) == IF Len(s) > 1 /\ s[1] = 48 THEN trim_zeros(Tail(s)) ELSE s

\* str::parse::<i32>: an optional sign, then one decimal digit or more, the
\* value within the 32 bits of an i32.
parse_i32(s) ==
    LET signed == s # <<>> /\ s[1] \in {43, 45}
        negative == signed /\ s[1] = 45
        digits == trim_zeros(IF signed THEN Tail(s) ELSE s)
        lead == digits_value(SubSeq(digits, 1, 9))
        last == digits[10] - 48
        fail == [ok |-> FALSE, value |-> 0]
    IN  IF digits = <<>> \/ \E k \in 1..Len(digits) : digits[k] \notin 48..57
        THEN fail
        ELSE IF Len(digits) <= 9
        THEN [ok |-> TRUE,
              value |-> IF negative THEN 0 - digits_value(digits)
                        ELSE digits_value(digits)]
        ELSE IF \/ Len(digits) > 10
                \/ lead > 214748364
                \/ lead = 214748364 /\ last > (IF negative THEN 8 ELSE 7)
        THEN fail
        ELSE [ok |-> TRUE,
              value |-> IF negative THEN (0 - 10 * lead) - last ELSE 10 * lead + last]

\* convert_expr_to_field: [ok, field, err]
convert_expr_to_field(expr) ==
    LET fail(text) == [ok |-> FALSE, field |-> Field_Integer(0), err |-> text]
        done(field) == [ok |-> TRUE, field |-> field, err |-> ""]
    IN  IF expr.kind # "Value" THEN fail("Unsupported expression type")
        ELSE CASE expr.value.kind = "Number" ->
                    LET i == parse_i32(expr.value.n)
                    IN  IF i.ok THEN done(Field_Integer(i.value))
                        ELSE fail("Invalid integer")
               [] expr.value.kind = "SingleQuotedString" -> done(Field_Text(expr.value.s))
               [] expr.value.kind = "Boolean" -> done(Field_Boolean(expr.value.b))
               [] OTHER -> fail("Unsupported expression type")

\* extract_column_name: [ok, name, err]
extract_column_name(expr) ==
    CASE expr.kind = "Identifier" -> [ok |-> TRUE, name |-> expr.value, err |-> ""]
      [] expr.kind = "CompoundIdentifier" ->
            [ok |-> TRUE, name |-> expr.parts[Len(expr.parts)], err |-> ""]
      [] OTHER -> [ok |-> FALSE, name |-> "", err |-> "Expected column name"]

\* `let filter = if let Some(selection) = selection { .. } else { None }` of
\* the UPDATE and of the SELECT arm: [ok, filter, err]
map_where_clause(selection) ==
    LET fail(text) == [ok |-> FALSE, filter |-> None, err |-> text]
        done(filter) == [ok |-> TRUE, filter |-> filter, err |-> ""]
    IN  IF selection = None THEN done(None)
        ELSE LET e == selection[1]
             IN  IF e.kind # "BinaryOp" THEN done(None)
                 ELSE LET col_name == extract_column_name(e.left)
                          val == convert_expr_to_field(e.right)
                      IN  IF ~col_name.ok THEN fail(col_name.err)
                          ELSE IF e.op \notin {"Eq", "NotEq", "Gt", "Lt"}
                          THEN fail("Unsupported operator")
                          ELSE IF ~val.ok THEN fail(val.err)
                          ELSE done(Some(Filter(col_name.name,
                                                CASE e.op = "Eq" -> "Eq"
                                                  [] e.op = "NotEq" -> "NotEq"
                                                  [] e.op = "Gt" -> "GreaterThan"
                                                  [] e.op = "Lt" -> "LessThan",
                                                val.field)))

\* The first of a sequence of outcomes that is an error, 0 when none is.
first_err(outs) ==
    IF \E k \in 1..Len(outs) : ~outs[k].ok
    THEN CHOOSE k \in 1..Len(outs) : ~outs[k].ok /\ \A j \in 1..(k - 1) : outs[j].ok
    ELSE 0

\* convert_column: [ok, column, err]
convert_column(col) ==
    LET fail == [ok |-> FALSE, column |-> Column(col.name, DataType_Integer, FALSE, FALSE),
                 err |-> "Unsupported data type"]
        done(t) == [ok |-> TRUE,
                    column |-> Column(col.name, t, "PRIMARY KEY" \in col.options,
                                      \/ "AUTOINCREMENT" \in col.options
                                      \/ "AUTO_INCREMENT" \in col.options),
                    err |-> ""]
    IN  CASE col.data_type.kind \in {"Int", "Integer"} -> done(DataType_Integer)
          [] col.data_type.kind = "Boolean" -> done(DataType_Boolean)
          [] col.data_type.kind = "Varchar" /\ col.data_type.len # None ->
                done(DataType_Text(col.data_type.len[1]))
          [] col.data_type.kind = "Text" -> done(DataType_Text(255))
          [] OTHER -> fail

\* The arm of Statement::CreateTable
parse_create_table(statement) ==
    LET cols == [k \in 1..Len(statement.columns) |-> convert_column(statement.columns[k])]
    IN  IF first_err(cols) # 0 THEN ParseErr(cols[first_err(cols)].err)
        ELSE ParseOk(<< Cmd_CreateTable(statement.name,
                                        [k \in 1..Len(cols) |-> cols[k].column]) >>)

\* The arm of Statement::Update
parse_update(statement) ==
    LET vals == [k \in 1..Len(statement.assignments) |->
                    convert_expr_to_field(statement.assignments[k].value)]
        filter == map_where_clause(statement.selection)
    IN  IF first_err(vals) # 0 THEN ParseErr(vals[first_err(vals)].err)
        ELSE IF ~filter.ok THEN ParseErr(filter.err)
        ELSE ParseOk(<< Cmd_Update(statement.table,
                                   [k \in 1..Len(vals) |->
                                       <<statement.assignments[k].id[1], vals[k].field>>],
                                   filter.filter) >>)

\* The arm of Statement::Insert: a command for every row of VALUES
parse_insert(statement) ==
    IF statement.source = None THEN ParseErr("INSERT statement missing values")
    ELSE IF statement.source[1].kind # "Values" THEN ParseErr("Unsupported INSERT format")
    ELSE LET rows == statement.source[1].rows
             fields == [r \in 1..Len(rows) |->
                          [k \in 1..Len(rows[r]) |-> convert_expr_to_field(rows[r][k])]]
             outs == [r \in 1..Len(rows) |->
                          [ok |-> first_err(fields[r]) = 0,
                           err |-> IF first_err(fields[r]) = 0 THEN ""
                                   ELSE fields[r][first_err(fields[r])].err]]
         IN  IF first_err(outs) # 0 THEN ParseErr(outs[first_err(outs)].err)
             ELSE ParseOk([r \in 1..Len(rows) |->
                             Cmd_Insert(statement.table_name,
                                        [k \in 1..Len(rows[r]) |-> fields[r][k].field])])

\* `2. Check for JOINs` of the arm of Statement::Query: [ok, join, err]
parse_join(first_from) ==
    LET join == first_from.joins[1]
        on == join.join_operator.constraint.expr
        left_column == extract_column_name(on.left)
        right_column == extract_column_name(on.right)
        fail(text) == [ok |-> FALSE, join |-> None, err |-> text]
        done(j) == [ok |-> TRUE, join |-> j, err |-> ""]
    IN  IF first_from.joins = <<>> THEN done(None)
        ELSE IF join.relation.kind # "Table" THEN fail("Unsupported JOIN table")
        ELSE IF \/ join.join_operator.kind # "Inner"
                \/ join.join_operator.constraint.kind # "On"
                \/ on.kind # "BinaryOp"
        THEN done(None)
        ELSE IF on.op # "Eq" THEN done(None)
        ELSE IF ~left_column.ok THEN fail(left_column.err)
        ELSE IF ~right_column.ok THEN fail(right_column.err)
        ELSE done(Some(JoinClause(left_column.name, join.relation.name,
                                  right_column.name)))

\* The arm of Statement::Query
parse_query(statement) ==
    LET select == statement.body
        first_from == select.from[1]
        join_info == parse_join(first_from)
        filter == map_where_clause(select.selection)
    IN  IF select.kind # "Select" THEN ParseOk(<<>>)
        ELSE IF select.from = <<>> THEN ParseErr("Missing FROM clause")
        ELSE IF first_from.relation.kind # "Table"
        THEN ParseErr("Unsupported table reference")
        ELSE IF ~join_info.ok THEN ParseErr(join_info.err)
        ELSE IF ~filter.ok THEN ParseErr(filter.err)
        ELSE ParseOk(<< Cmd_Select(first_from.relation.name, join_info.join,
                                   filter.filter) >>)

\* One turn of `for statement in ast`
parse_statement(statement) ==
    CASE statement.kind = "CreateTable" -> parse_create_table(statement)
      [] statement.kind = "Update" -> parse_update(statement)
      [] statement.kind = "Insert" -> parse_insert(statement)
      [] statement.kind = "Query" -> parse_query(statement)
      [] OTHER -> ParseErr("Unsupported SQL statement")

RECURSIVE concat(_)
concat(seqs) == IF seqs = <<>> THEN <<>> ELSE Head(seqs) \o concat(Tail(seqs))

\* parse_sql, on what Parser::parse_sql made of the text: a syntax error or
\* the statements.
parse_sql(parsed) ==
    LET outs == [k \in 1..Len(parsed.ast) |-> parse_statement(parsed.ast[k])]
    IN  IF ~parsed.ok THEN ParseErr("sql parser error")
        ELSE IF first_err(outs) # 0 THEN ParseErr(outs[first_err(outs)].err)
        ELSE ParseOk(concat([k \in 1..Len(outs) |-> outs[k].commands]))

----------------------------------------------------------------------------
(* parse_sql on its own: what the SQL parser made of a text, then the call. *)

Str_i32_max == <<50, 49, 52, 55, 52, 56, 51, 54, 52, 55>>
Str_i32_over == <<50, 49, 52, 55, 52, 56, 51, 54, 52, 56>>
Str_1_5 == <<49, 46, 53>>

\* `id = 1`
IdIsOne == Expr_BinaryOp(Expr_Identifier("id"), "Eq", Expr_Number(Str_1))

\* the left sides of a comparison: a column, a column of a table, a literal,
\* a comparison
WhereLefts ==
    { Expr_Identifier("id"), Expr_CompoundIdentifier(<<"users", "id">>),
      Expr_Number(Str_1), IdIsOne }

\* the four operators of a filter and four more of SQL
WhereOps == {"Eq", "NotEq", "Gt", "Lt", "GtEq", "LtEq", "And", "Or"}

\* the right sides: literals of the three tags, integers at and past the end
\* of the i32, a fraction, NULL, a column, a negative number, a comparison
WhereRights ==
    { Expr_Number(Str_1), Expr_Number(Str_i32_max), Expr_Number(Str_i32_over),
      Expr_Number(Str_1_5), Expr_SingleQuotedString(Str_a), Expr_Boolean(TRUE),
      Expr_Null, Expr_Identifier("name"), Expr_UnaryOp("Minus", Expr_Number(Str_1)),
      Expr_BinaryOp(Expr_Identifier("name"), "Eq", Expr_SingleQuotedString(Str_a)) }

WhereComparisons ==
    {Expr_BinaryOp(l, op, r) : l \in WhereLefts, op \in WhereOps, r \in WhereRights}

\* `(id = 1)`, `NOT id = 1`, `id IS NULL`, `id IN (1)`, `id BETWEEN 1 AND 1`,
\* `active`, `TRUE`
WhereOthers ==
    { Expr_Nested(IdIsOne), Expr_UnaryOp("Not", IdIsOne),
      Expr_IsNull(Expr_Identifier("id")),
      Expr_InList(Expr_Identifier("id"), << Expr_Number(Str_1) >>),
      Expr_Between(Expr_Identifier("id"), Expr_Number(Str_1), Expr_Number(Str_1)),
      Expr_Identifier("active"), Expr_Boolean(TRUE) }

Selections == {None} \cup {Some(e) : e \in WhereComparisons \cup WhereOthers}

FromUsers == << TableWithJoins(TableFactor_Table("users"), <<>>) >>

\* users joined with orders: on two columns, inner and outer, on an
\* inequality, on a literal, with a subquery
FromJoins ==
    { << TableWithJoins(TableFactor_Table("users"), << Join(r, o) >>) >> :
         r \in {TableFactor_Table("orders"), TableFactor_Derived},
         o \in { JoinOperator_Inner_On(
                    Expr_BinaryOp(Expr_CompoundIdentifier(<<"users", "id">>), "Eq",
                                  Expr_CompoundIdentifier(<<"orders", "uid">>))),
                 JoinOperator_Inner_On(
                    Expr_BinaryOp(Expr_CompoundIdentifier(<<"users", "id">>), "Lt",
                                  Expr_CompoundIdentifier(<<"orders", "uid">>))),
                 JoinOperator_Inner_On(
                    Expr_BinaryOp(Expr_Identifier("id"), "Eq", Expr_Number(Str_1))),
                 JoinOperator_Inner_On(Expr_Boolean(TRUE)),
                 JoinOperator_LeftOuter_On(
                    Expr_BinaryOp(Expr_CompoundIdentifier(<<"users", "id">>), "Eq",
                                  Expr_CompoundIdentifier(<<"orders", "uid">>))) } }

SetName == << Assignment(<<"name">>, Expr_SingleQuotedString(Str_a)) >>

Statements ==
    {Statement_Update("users", SetName, s) : s \in Selections}
    \cup {Statement_Query(SetExpr_Select(FromUsers, s)) : s \in Selections}
    \cup {Statement_Query(SetExpr_Select(f, s)) : f \in FromJoins, s \in {None, Some(IdIsOne)}}
    \cup { Statement_Update("users", << Assignment(<<"id">>, Expr_Null) >>, None),
           Statement_Query(SetExpr_Select(<<>>, None)),
           Statement_Query(SetExpr_Select(<< TableWithJoins(TableFactor_Derived, <<>>) >>,
                                          None)),
           Statement_Query(SetExpr_Values(<< << Expr_Number(Str_1) >> >>)),
           Statement_Insert("users", None),
           Statement_Insert("users", Some(SetExpr_Select(FromUsers, None))),
           Statement_Insert("users",
               Some(SetExpr_Values(<< << Expr_Number(Str_1), Expr_SingleQuotedString(Str_a) >>,
                                      << Expr_Number(Str_i32_max), Expr_Boolean(FALSE) >> >>))),
           Statement_Insert("users",
               Some(SetExpr_Values(<< << Expr_Number(Str_1) >>, << Expr_Null >> >>))),
           Statement_CreateTable("users",
               << ColumnDef("id", [kind |-> "Int"], {"PRIMARY KEY", "AUTOINCREMENT"}),
                  ColumnDef("name", [kind |-> "Varchar", len |-> Some(3)], {}),
                  ColumnDef("bio", [kind |-> "Text"], {"NOT NULL"}),
                  ColumnDef("ok", [kind |-> "Boolean"], {}) >>),
           Statement_CreateTable("users",
               << ColumnDef("id", [kind |-> "Integer"], {"AUTO_INCREMENT"}),
                  ColumnDef("name", [kind |-> "Varchar", len |-> None], {}) >>),
           Statement_Delete("users", Some(IdIsOne)),
           Statement_Drop("users") }

\* a text of one statement, of two, of none, and one that is no SQL
Texts ==
    {[ok |-> TRUE, ast |-> << st >>] : st \in Statements}
    \cup { [ok |-> TRUE, ast |-> << Statement_Update("users", SetName, Some(IdIsOne)),
                                      Statement_Query(SetExpr_Select(FromUsers, None)) >>],
           [ok |-> TRUE, ast |-> << Statement_Query(SetExpr_Select(FromUsers, None)),
                                      Statement_Drop("users") >>],
           [ok |-> TRUE, ast |-> <<>>],
           [ok |-> FALSE, ast |-> <<>>] }

InitParse ==
    /\ DatabaseInit
    /\ \E text \in Texts : codec = [pc |-> "text", text |-> text, out |-> ParseOk(<<>>)]
    /\ pager_state = PagerIdle
    /\ page_state = PageIdle
    /\ web = WebIdle
    /\ mutation = MutationIdle

\* parse_sql(&line)
DoParseSql ==
    /\ codec.pc = "text"
    /\ codec' = [codec EXCEPT !.pc = "parsed", !.out = parse_sql(codec.text)]
    /\ UNCHANGED <<database, pager_state, page_state, web, mutation>>

NextParse == DoParseSql

SpecParse == InitParse /\ [][NextParse]_vars

----------------------------------------------------------------------------
(* One table of five bytes a row, 806 slots a page: more slots than the     *)
(* header has bits.                                                         *)

InsertsAlias ==
    { Cmd_Insert("flags", << Field_Integer(1), Field_Boolean(TRUE) >>),
      Cmd_Insert("flags", << Field_Integer(0), Field_Boolean(FALSE) >>) }

DeletesAlias ==
    { Cmd_Delete("flags", Where("id", "Eq", Field_Integer(0))),
      Cmd_Delete("flags", None) }

\* a value for id; an Integer for the Boolean column
UpdatesAlias ==
    { Cmd_Update("flags", << <<"id", Field_Integer(1)>> >>, None),
      Cmd_Update("flags", << <<"ok", Field_Integer(7)>> >>,
                 Where("id", "Eq", Field_Integer(1))) }

NextAlias ==
    \/ DoCreateTable({ Cmd_CreateTable("flags", FlagsColumns) })
    \/ DoInsert(InsertsAlias)
    \/ DoDelete(DeletesAlias)
    \/ DoUpdate(UpdatesAlias)

SpecAlias == Init /\ [][NextAlias]_vars

----------------------------------------------------------------------------
(* Two tables and the join of one with the other.                           *)

CreatesJoin ==
    { Cmd_CreateTable("users", UsersColumns),
      Cmd_CreateTable("orders", OrdersColumns) }

InsertsJoin ==
    { Cmd_Insert("users", << Field_Integer(1), Field_Text(Str_a), Field_Text(Str_empty) >>),
      Cmd_Insert("users", << Field_Integer(2), Field_Text(Str_abc), Field_Text(Str_empty) >>),
      Cmd_Insert("orders", << Field_Integer(1) >>),
      Cmd_Insert("orders", << Field_Integer(2) >>) }

DeletesJoin == { Cmd_Delete("users", Where("id", "Eq", Field_Integer(1))) }

\* users JOIN orders ON id = uid, bare and filtered; on columns of different
\* types; orders JOIN users, filtered.
SelectsJoin ==
    { Cmd_Select("users", Some(JoinClause("id", "orders", "uid")), None),
      Cmd_Select("users", Some(JoinClause("id", "orders", "uid")),
                 Where("id", "Eq", Field_Integer(1))),
      Cmd_Select("users", Some(JoinClause("name", "orders", "uid")), None),
      Cmd_Select("orders", Some(JoinClause("uid", "users", "id")),
                 Where("oid", "GreaterThan", Field_Integer(1))) }

NextJoin ==
    \/ DoCreateTable(CreatesJoin)
    \/ DoInsert(InsertsJoin)
    \/ DoDelete(DeletesJoin)
    \/ DoSelect(SelectsJoin)

SpecJoin == Init /\ [][NextJoin]_vars

----------------------------------------------------------------------------
(* What the properties below read off a state.                              *)

\* The pages of a table's heap file; a file that does not exist has none.
Pages(d, name) == IF name \in DOMAIN d THEN d[name] ELSE <<>>

\* The live rows of a table of the catalog, in scan order.
Rows(name) == scan_rows(Pages(disk, name), catalog.tables[name])

\* How often a value occurs in a sequence.
Count(seq, x) == Cardinality({k \in 1..Len(seq) : seq[k] = x})

\* Two sequences hold the same values the same number of times.
SameBag(s, t) ==
    /\ Len(s) = Len(t)
    /\ \A k \in 1..Len(s) : Count(s, s[k]) = Count(t, s[k])

\* A row every Text value of which fits its column and has no zero byte.
Fits(row, columns) ==
    \A i \in 1..Len(row) :
        row[i].tag = "Text" =>
            /\ Len(row[i].s) <= columns[i].data_type.max_len
            /\ \A k \in 1..Len(row[i].s) : row[i].s[k] # 0

\* The index keys of the live rows of a file.
LiveKeys(file, columns) ==
    LET rows == scan_rows(file, columns)
    IN  {pk_value(rows[k][pk_col_idx(columns) + 1]) : k \in 1..Len(rows)}

\* The step is an Insert command, on a table with a primary key, of a row
\* that passes validation and whose key a live row of the table already has.
DuplicateInsert ==
    /\ cmd'.kind = "Insert"
    /\ cmd'.table_name \in DOMAIN catalog.tables
    /\ LET columns == catalog.tables[cmd'.table_name]
       IN  /\ pk_col_idx(columns) >= 0
           /\ ~HasAuto(columns)
           /\ Len(cmd'.fields) = Len(columns)
           /\ WellTyped(cmd'.fields, columns)
           /\ pk_value(cmd'.fields[pk_col_idx(columns) + 1])
                 \in LiveKeys(Pages(disk, cmd'.table_name), columns)

----------------------------------------------------------------------------
(* Primary keys (Spec).                                                     *)

\* C1: in every table with a primary-key column, no two live rows have the
\* same index key (value_to_string of the primary-key field).
C1_UniquePrimaryKeys ==
    \A name \in DOMAIN catalog.tables :
        LET columns == catalog.tables[name]
            rows == Rows(name)
        IN  pk_col_idx(columns) >= 0 =>
                \A j, k \in 1..Len(rows) :
                    j # k => pk_value(rows[j][pk_col_idx(columns) + 1])
                                # pk_value(rows[k][pk_col_idx(columns) + 1])

\* C2: an insert of a row whose primary key a live row of the table already
\* has, into a Table opened on the file with its index loaded, returns an
\* error.
C2_DuplicateInsertFails ==
    [][DuplicateInsert => result'.kind = "Err"]_vars

\* C3: an insert of a row whose primary key is already live, the insert the
\* duplicate error is for, leaves the pages of the heap file as they were.
C3_DuplicateInsertWritesNothing ==
    [][DuplicateInsert =>
          Pages(disk', cmd'.table_name) = Pages(disk, cmd'.table_name)]_vars

----------------------------------------------------------------------------
(* Scans (Spec).                                                            *)

BitmapInHeader(columns) ==
    /\ 8 * HEADER_SIZE >= max_slots(columns)
    /\ max_slots(columns) >= 1

----------------------------------------------------------------------------
(* Update of the primary key (Spec).                                        *)

\* The step is an Update command, on a table of the catalog, whose
\* assignment list names the primary-key column of the table.
UpdateNamesPk ==
    /\ cmd'.kind = "Update"
    /\ cmd'.table_name \in DOMAIN catalog.tables
    /\ LET columns == catalog.tables[cmd'.table_name]
       IN  /\ pk_col_idx(columns) >= 0
           /\ \E k \in 1..Len(cmd'.assignments) :
                 cmd'.assignments[k][1] = columns[pk_col_idx(columns) + 1].name

\* No assignment before the first one on the primary-key column names a
\* column the table does not have.
KnownBeforePk(assignments, columns) ==
    \E k \in 1..Len(assignments) :
        /\ assignments[k][1] = columns[pk_col_idx(columns) + 1].name
        /\ \A j \in 1..(k - 1) : name_position(columns, assignments[j][1], 1) >= 0

\* A live row of the table passes the filter (None: every row does).
SomeRowMatches(name, filter) ==
    \E k \in 1..Len(Rows(name)) :
        filter = None \/ row_matches_filter(Rows(name)[k], filter[1], catalog.tables[name])

PkError(r) ==
    r.kind = "Err" /\ r.text[1] = "Updating Primary Key is not allowed"

\* C7 as stated: an Update whose assignment list names the primary-key
\* column fails with "Updating Primary Key is not allowed" and writes no
\* page, whatever the table holds and whatever the filter.
C7_UpdatePkFails ==
    [][UpdateNamesPk =>
          /\ PkError(result')
          /\ Pages(disk', cmd'.table_name) = Pages(disk, cmd'.table_name)]_vars

\* C7, amended: an Update whose assignment list names the primary-key column
\* writes no page, whatever the table holds and whatever the filter; when a
\* live row passes the filter it fails, with "Updating Primary Key is not
\* allowed" unless an earlier assignment names an unknown column; when no
\* live row passes the filter it returns "Updated 0 rows.".
C7_UpdatePkFailsOnTargets ==
    [][UpdateNamesPk =>
          LET name == cmd'.table_name
              columns == catalog.tables[name]
          IN  /\ Pages(disk', name) = Pages(disk, name)
              /\ SomeRowMatches(name, cmd'.filter) =>
                    /\ result'.kind = "Err"
                    /\ KnownBeforePk(cmd'.assignments, columns) => PkError(result')
              /\ ~SomeRowMatches(name, cmd'.filter) =>
                    /\ result'.kind = "Message"
                    /\ result'.text[1] = "Updated "
                    /\ result'.text[2] = 0]_vars

\* An Update of the primary key of a table with two live rows, one of which
\* passes the filter, has returned the error.
C7_Witness ==
    /\ cmd.kind = "Update"
    /\ cmd.table_name \in DOMAIN catalog.tables
    /\ pk_col_idx(catalog.tables[cmd.table_name]) >= 0
    /\ KnownBeforePk(cmd.assignments, catalog.tables[cmd.table_name])
    /\ cmd.filter # None
    /\ Len(Rows(cmd.table_name)) = 2
    /\ SomeRowMatches(cmd.table_name, cmd.filter)
    /\ PkError(result)

----------------------------------------------------------------------------
(* The slot an insert takes (Spec).                                         *)

\* The page has a slot, below max_slots, that is_slot_full does not report
\* full.
HasFreeSlot(page, columns) ==
    \E s \in 0..(max_slots(columns) - 1) : ~is_slot_full(page, s)

\* The lowest such slot of the page.
LowestFreeSlot(page, columns) ==
    CHOOSE s \in 0..(max_slots(columns) - 1) :
        ~is_slot_full(page, s) /\ \A t \in 0..(s - 1) : is_slot_full(page, t)

\* The slot of the file is marked full and holds the serialized row.
StoredAt(file, columns, p_idx, s_idx, row) ==
    LET bytes == serialize(row, columns)
        offset == get_row_offset(s_idx, row_size(columns))
        page == file[p_idx + 1]
    IN  /\ Len(file) > p_idx
        /\ is_slot_full(page, s_idx)
        /\ \A k \in 1..row_size(columns) : Byte(page, offset + k - 1) = bytes[k]

\* C8: an insert that succeeds stores the row in the free slot of lowest
\* slot index on the lowest-numbered page that has a free slot; when no page
\* has one it appends a page to the file and stores the row in its slot 0.
C8_InsertTakesLowestFreeSlot ==
    [][(cmd'.kind = "Insert" /\ result'.kind = "Message") =>
          LET name == cmd'.table_name
              columns == catalog.tables[name]
              file == Pages(disk, name)
              pages == {p \in 0..(Len(file) - 1) : HasFreeSlot(file[p + 1], columns)}
              row == result'.text[2]
          IN  IF pages = {}
              THEN /\ Len(disk'[name]) = Len(file) + 1
                   /\ StoredAt(disk'[name], columns, Len(file), 0, row)
              ELSE LET lowest == CHOOSE p \in pages : \A q \in pages : p <= q
                       slot == LowestFreeSlot(file[lowest + 1], columns)
                   IN  /\ Len(disk'[name]) = Len(file)
                       /\ StoredAt(disk'[name], columns, lowest, slot, row)]_vars

\* An insert has succeeded on a file of two pages after a Delete command
\* had freed slots.
C8_Witness ==
    /\ cmd.kind = "Insert"
    /\ result.kind = "Message"
    /\ ~history[cmd.table_name].clean
    /\ Len(disk[cmd.table_name]) = 2
    /\ Len(Rows(cmd.table_name)) = 2

----------------------------------------------------------------------------
(* Select by primary key (Spec).                                            *)

\* C9: a Select without join whose filter is `=` on the primary-key column
\* returns the one live row whose primary key equals the filter value when
\* there is such a row, and "No rows found." when there is none.
C9_SelectByPkReturnsTheRow ==
    (/\ cmd.kind = "Select"
     /\ cmd.table_name \in DOMAIN catalog.tables
     /\ used_index(catalog.tables[cmd.table_name], cmd.join, cmd.filter))
    => LET columns == catalog.tables[cmd.table_name]
           Equal(r) == FieldEq(r[pk_col_idx(columns) + 1], cmd.filter[1].value)
           equal == SelectSeq(Rows(cmd.table_name), Equal)
       IN  IF equal = <<>>
           THEN result.kind = "Message" /\ result.text[1] = "No rows found."
           ELSE result.kind = "Data" /\ result.rows = equal

----------------------------------------------------------------------------
(* The round trip of a row through its bytes (SpecCodec).                   *)

\* C5 as stated: for every schema and every row whose arity and tags match
\* it, deserialize(serialize(row, schema), schema) is the row.
C5_RoundTrip ==
    codec.pc = "decoded" => codec.decoded = codec.row

\* C5, amended: for every schema and every row whose arity and tags match
\* it and whose Text values each fit max_len bytes and hold no zero byte,
\* deserialize(serialize(row, schema), schema) is the row.
C5_RoundTripOfFittingRows ==
    (codec.pc = "decoded" /\ Fits(codec.row, codec.columns))
        => codec.decoded = codec.row

\* A row with a negative Integer and a Text that fills its column has made
\* the round trip.
C5_Witness ==
    /\ codec.pc = "decoded"
    /\ Fits(codec.row, codec.columns)
    /\ \E i \in 1..Len(codec.row) :
          codec.row[i].tag = "Integer" /\ codec.row[i].i < -1
    /\ \E i \in 1..Len(codec.row) :
          /\ codec.row[i].tag = "Text"
          /\ Len(codec.row[i].s) = codec.columns[i].data_type.max_len

----------------------------------------------------------------------------
(* Autoincrement (SpecOrders).                                              *)

\* The last command was an Insert that succeeded on a table with an
\* autoincrement column.
AutoInsertDone ==
    /\ cmd.kind = "Insert"
    /\ result.kind = "Message"
    /\ HasAuto(catalog.tables[cmd.table_name])

\* The row the last Insert prepared is live in the table and holds v in the
\* autoincrement column.
AutoValueStored(v) ==
    LET columns == catalog.tables[cmd.table_name]
        row == result.text[2]
    IN  /\ row[auto_position(columns, 1) + 1] = Field_Integer(v)
        /\ Count(Rows(cmd.table_name), row) >= 1

\* C6 as stated: the k-th Insert command that succeeds on a table with an
\* autoincrement column stores k in that column, whatever Insert commands,
\* successful or failing, came before.
C6_KthInsertStoresK ==
    AutoInsertDone => AutoValueStored(inserts[cmd.table_name].ok)

\* C6, amended: an Insert command that succeeds on a table with an
\* autoincrement column stores in that column the number of Insert commands
\* run on the table since its creation, the failed ones counted; it is k for
\* the k-th successful one only when none before it failed.
C6_InsertStoresCommandCount ==
    AutoInsertDone =>
        /\ AutoValueStored(inserts[cmd.table_name].all)
        /\ inserts[cmd.table_name].all = inserts[cmd.table_name].ok
              => AutoValueStored(inserts[cmd.table_name].ok)

\* The second successful Insert came after a failed one and stored 3.
C6_Witness ==
    /\ AutoInsertDone
    /\ inserts[cmd.table_name].ok = 2
    /\ inserts[cmd.table_name].all = 3
    /\ AutoValueStored(3)

----------------------------------------------------------------------------
(* Select with a join (SpecJoin).                                           *)

\* The last command was a Select with a join that returned no error.
JoinDone ==
    /\ cmd.kind = "Select"
    /\ cmd.join # None
    /\ result.kind # "Err"

\* The live rows of the left table that pass the filter of the command.
LeftRows ==
    LET Keep(r) == cmd.filter = None
                   \/ row_matches_filter(r, cmd.filter[1], catalog.tables[cmd.table_name])
    IN  SelectSeq(Rows(cmd.table_name), Keep)

\* The pairs (a, b) of such a left row and a live right row with equal join
\* fields, as positions in LeftRows and in the rows of the right table.
JoinPairs ==
    LET j == cmd.join[1]
        l == name_position(catalog.tables[cmd.table_name], j.left_column, 1)
        r == name_position(catalog.tables[j.right_table], j.right_column, 1)
        right == Rows(j.right_table)
    IN  {ab \in (1..Len(LeftRows)) \X (1..Len(right)) :
            FieldEq(LeftRows[ab[1]][l + 1], right[ab[2]][r + 1])}

Merged(ab) == LeftRows[ab[1]] \o Rows(cmd.join[1].right_table)[ab[2]]

\* C10: a Select with a join returns one row for every pair (a, b) of a live
\* left row a that passes the filter and a live right row b whose join field
\* is structurally equal to a's, the fields of a followed by those of b,
\* under the left columns followed by the right columns, and no other row;
\* with no such pair it returns "No rows found.".
C10_JoinReturnsMatchingPairs ==
    JoinDone =>
        IF JoinPairs = {}
        THEN result.kind = "Message" /\ result.text[1] = "No rows found."
        ELSE /\ result.kind = "Data"
             /\ result.columns =
                   column_names(catalog.tables[cmd.table_name])
                   \o column_names(catalog.tables[cmd.join[1].right_table])
             /\ Len(result.rows) = Cardinality(JoinPairs)
             /\ \A ab \in JoinPairs :
                   Count(result.rows, Merged(ab))
                      = Cardinality({cd \in JoinPairs : Merged(cd) = Merged(ab)})

\* A join of two left rows with three right rows has returned three rows:
\* one left row matched twice, the other once.
C10_Witness ==
    /\ JoinDone
    /\ cmd.filter = None
    /\ Len(LeftRows) = 2
    /\ Len(Rows(cmd.join[1].right_table)) = 3
    /\ Cardinality(JoinPairs) = 3
    /\ \E ab, cd \in JoinPairs : ab[1] # cd[1]
    /\ result.kind = "Data"

----------------------------------------------------------------------------
(* Persistence of the catalog (SpecFaults).                                 *)

\* C11: after every command the catalog file holds the catalog in memory,
\* and Database::open on the same directory yields the same schemas and
\* sequence counters and tables that scan to the same rows as before.
C11_CatalogSurvivesReopen ==
    [][/\ load_or_create(catalog'.file).tables = catalog'.tables
       /\ load_or_create(catalog'.file).sequences = catalog'.sequences
       /\ cmd'.kind = "Open" =>
             /\ catalog'.tables = catalog.tables
             /\ catalog'.sequences = catalog.sequences
             /\ \A n \in DOMAIN catalog.tables :
                   scan_rows(Pages(disk', n), catalog'.tables[n])
                      = scan_rows(Pages(disk, n), catalog.tables[n])]_vars

\* The database was opened again on a directory whose table has two rows and
\* a counter at 3.
C11_Witness ==
    /\ cmd.kind = "Open"
    /\ "orders" \in DOMAIN catalog.tables
    /\ catalog.sequences["orders"] = 3
    /\ Len(Rows("orders")) = 2

----------------------------------------------------------------------------
(* Commands that return an error (SpecFaults).                              *)

IoError(r) == r.kind = "Err" /\ r.text[1] = "io error"

\* From before the step to after it: the schemas are the same, every heap
\* file has the same pages, and the counters are the same but, when the
\* command is an Insert, for the counter of its table, which may be higher.
NothingChanged ==
    /\ catalog'.tables = catalog.tables
    /\ \A n \in DOMAIN disk \cup DOMAIN disk' : Pages(disk', n) = Pages(disk, n)
    /\ DOMAIN catalog'.sequences = DOMAIN catalog.sequences
    /\ \A n \in DOMAIN catalog.sequences :
          \/ catalog'.sequences[n] = catalog.sequences[n]
          \/ /\ cmd'.kind = "Insert"
             /\ cmd'.table_name = n
             /\ catalog'.sequences[n] > catalog.sequences[n]

\* C12 as stated: a command that returns an error leaves the schemas and
\* the pages of every heap file as they were at its entry; only the counter
\* of the table of a failed Insert may have advanced.
C12_ErrorsChangeNothing ==
    [][result'.kind = "Err" => NothingChanged]_vars

\* What does hold: a command that returns an error other than an I/O error
\* leaves the schemas and the pages of every heap file as they were at its
\* entry, and only the counter of the table of a failed Insert may have
\* advanced; a DropTable that fails on the removal of the heap file has
\* removed the schema and the counter from the saved catalog and left the
\* heap file as it was.
C12_ValidationErrorsChangeNothing ==
    [][result'.kind = "Err" =>
          IF IoError(result')
          THEN /\ cmd'.kind = "DropTable"
               /\ catalog'.tables = MapRemove(catalog.tables, cmd'.table_name)
               /\ catalog'.sequences = MapRemove(catalog.sequences, cmd'.table_name)
               /\ load_or_create(catalog'.file).tables = catalog'.tables
               /\ disk' = disk
          ELSE NothingChanged]_vars

\* An Insert has failed on a table that holds a row, and has advanced the
\* counter of the table all the same.
C12_Witness ==
    /\ cmd.kind = "Insert"
    /\ result.kind = "Err"
    /\ "orders" \in DOMAIN catalog.tables
    /\ Len(Rows("orders")) = 1
    /\ inserts["orders"].ok = 1
    /\ catalog.sequences["orders"] = 2

----------------------------------------------------------------------------
(* CreateTable and DropTable (SpecAgain).                                   *)

\* C14: a CreateTable whose name is in the catalog fails with "Table <name>
\* already exists" and leaves the schema and the counter of that table as
\* they were; a CreateTable with a new name adds the schema with a counter
\* of 0 and returns "Table <name> created.".
C14_CreateTableOnce ==
    [][cmd'.kind = "CreateTable" =>
          IF cmd'.name \in DOMAIN catalog.tables
          THEN /\ result' = Err(<<"Table ", cmd'.name, " already exists">>)
               /\ catalog'.tables = catalog.tables
               /\ catalog'.sequences = catalog.sequences
          ELSE /\ result' = Message(<<"Table ", cmd'.name, " created.">>)
               /\ catalog'.tables = MapPut(catalog.tables, cmd'.name, cmd'.columns)
               /\ catalog'.sequences[cmd'.name] = 0]_vars

\* The table exists with one schema and a counter at 2, and a CreateTable
\* of the same name with another schema has failed.
C14_Witness ==
    /\ cmd.kind = "CreateTable"
    /\ cmd.columns = PairsColumns
    /\ result.kind = "Err"
    /\ catalog.tables["orders"] = OrdersColumns
    /\ catalog.sequences["orders"] = 2

Range(seq) == {seq[k] : k \in 1..Len(seq)}

\* C15: a DropTable of a table of the catalog removes its schema, its
\* counter and its heap file; a DropTable of any other name fails and
\* changes nothing; the table a CreateTable makes has no heap page and a
\* counter of 0, and a Select returns only rows inserted since the table
\* was created.
C15_DropForgetsRows ==
    [][/\ cmd'.kind = "DropTable" =>
            IF cmd'.table_name \in DOMAIN catalog.tables
            THEN /\ result' = Message(<<"Table ", cmd'.table_name, " dropped.">>)
                 /\ cmd'.table_name \notin DOMAIN catalog'.tables
                 /\ cmd'.table_name \notin DOMAIN catalog'.sequences
                 /\ cmd'.table_name \notin DOMAIN disk'
            ELSE /\ result' = Err(<<"Table ", cmd'.table_name, " not found">>)
                 /\ catalog' = catalog
                 /\ disk' = disk
       /\ (cmd'.kind = "CreateTable" /\ result'.kind = "Message") =>
            /\ Pages(disk', cmd'.name) = <<>>
            /\ catalog'.sequences[cmd'.name] = 0
       /\ (cmd'.kind = "Select" /\ result'.kind = "Data"
             /\ history[cmd'.table_name].clean) =>
            Range(result'.rows) \subseteq Range(history[cmd'.table_name].rows)]_vars

\* A table was dropped: its name is in neither the catalog nor the data
\* directory.
C15_Witness ==
    /\ cmd.kind = "DropTable"
    /\ result.kind = "Message"
    /\ "orders" \notin DOMAIN catalog.tables
    /\ "orders" \notin DOMAIN catalog.sequences
    /\ "orders" \notin DOMAIN disk

----------------------------------------------------------------------------
(* Validation of the row of an Insert (SpecAgain).                          *)

\* The 1-based position of the autoincrement column of a schema that has one.
AutoColumn(columns) ==
    CHOOSE i \in 1..Len(columns) :
        columns[i].is_autoincrement
        /\ \A j \in 1..(i - 1) : ~columns[j].is_autoincrement

\* Whether the fields of an Insert make a row of the schema: for a schema
\* with an autoincrement column, as many fields as columns, the one at the
\* autoincrement column being of no account, or one fewer, the others in
\* their order; for any other schema as many fields as columns; and each
\* field of the type of its column, the generated one being an Integer.
Acceptable(columns, fields) ==
    LET n == Len(columns)
        m == Len(fields)
    IN  IF HasAuto(columns)
        THEN LET a == AutoColumn(columns)
             IN  /\ m \in {n, n - 1}
                 /\ columns[a].data_type = DataType_Integer
                 /\ \A i \in 1..n :
                      i # a =>
                        TagMatches(columns[i].data_type,
                                   fields[IF m = n \/ i < a THEN i ELSE i - 1])
        ELSE /\ m = n
             /\ \A i \in 1..n : TagMatches(columns[i].data_type, fields[i])

\* C16: an Insert into a table of the catalog writes a row exactly when its
\* fields, after the placement of the generated value, are as many as the
\* columns and each of the type of its column; otherwise it returns a
\* column-count or a type-mismatch error and the heap file keeps its pages;
\* with an autoincrement column only as many fields as columns, or one
\* fewer, pass the count.
C16_InsertValidatesRow ==
    [][(cmd'.kind = "Insert" /\ cmd'.table_name \in DOMAIN catalog.tables) =>
          LET t == cmd'.table_name
              columns == catalog.tables[t]
              n == Len(columns)
          IN  IF Acceptable(columns, cmd'.fields)
              THEN /\ result'.kind = "Message"
                   /\ Len(result'.text[2]) = n
                   /\ first_mismatch(columns, result'.text[2], 1) = 0
                   /\ Len(scan_rows(Pages(disk', t), columns))
                        = Len(scan_rows(Pages(disk, t), columns)) + 1
              ELSE /\ result'.kind = "Err"
                   /\ result'.text[1] \in
                        { "Column count mismatch: expected ", "Table ",
                          "Type mismatch for column '" }
                   /\ (HasAuto(columns) /\ Len(cmd'.fields) \notin {n, n - 1})
                        => result'.text[1] = "Column count mismatch: expected "
                   /\ Pages(disk', t) = Pages(disk, t)]_vars

\* An Insert of two fields in the wrong order has failed on the types, on a
\* table that holds a row.
C16_Witness ==
    /\ cmd.kind = "Insert"
    /\ result.kind = "Err"
    /\ result.text[1] = "Type mismatch for column '"
    /\ "orders" \in DOMAIN catalog.tables
    /\ catalog.tables["orders"] = PairsColumns
    /\ Len(Rows("orders")) = 1

----------------------------------------------------------------------------
(* Panics and the shape of schemas (SpecSchemas).                           *)

\* C13: execute returns a value, an error or a result, and does not panic,
\* for every command and every schema of the catalog, also one of no
\* column or of a row wider than a page.
C13_ExecuteNeverPanics == result.kind # "Panic"

\* How many columns of a schema satisfy a flag.
Flagged(columns, flag) ==
    Cardinality({i \in 1..Len(columns) : columns[i][flag]})

\* C17: every schema of the catalog has at most one primary-key column and
\* at most one autoincrement column, and that one is an Integer.
C17_SchemasWellFormed ==
    \A n \in DOMAIN catalog.tables :
       LET columns == catalog.tables[n]
       IN  /\ Flagged(columns, "is_primary") <= 1
           /\ Flagged(columns, "is_autoincrement") <= 1
           /\ \A i \in 1..Len(columns) :
                 columns[i].is_autoincrement
                    => columns[i].data_type = DataType_Integer

----------------------------------------------------------------------------
(* The bitmap of a page (SpecPage).                                         *)

\* The slots whose bits are in the bytes at the indexes of S.
SlotsOfBytes(S) == {8 * k + t : k \in S, t \in 0..7}

\* The bytes of the bitmap, the byte a call addresses, and every byte that
\* is not zero before or after the call: every other byte of the page is
\* zero on both sides, and so are the bits of its slots.
BytesToCompare ==
    (0..(HEADER_SIZE - 1))
       \cup {page_state'.call.slot_index \div 8}
       \cup DOMAIN page_state.page \cup DOMAIN page_state'.page

\* C18: after set_slot(i, b), is_slot_full(i) is b and is_slot_full(j) is
\* what it was for every other slot j.
C18_SetSlotFrame ==
    [][page_state'.call.kind = "set_slot" =>
          LET i == page_state'.call.slot_index
          IN  /\ is_slot_full(page_state'.page, i) = page_state'.call.occupied
              /\ \A j \in SlotsOfBytes(BytesToCompare) \ {i} :
                    is_slot_full(page_state'.page, j)
                       = is_slot_full(page_state.page, j)]_vars

\* Slot 8 was cleared in a byte where slot 9 is set, slot 7 of the byte
\* before being set as well.
C18_Witness ==
    /\ page_state.call.kind = "set_slot"
    /\ page_state.call.slot_index = 8
    /\ ~page_state.call.occupied
    /\ ~is_slot_full(page_state.page, 8)
    /\ is_slot_full(page_state.page, 9)
    /\ is_slot_full(page_state.page, 7)

----------------------------------------------------------------------------
(* The heap file under the pager (SpecPager).                               *)

\* C19: the length of the heap file is a multiple of PAGE_SIZE, and
\* num_pages() times PAGE_SIZE is that length.
C19_FileIsWholePages ==
    /\ pager_state.pager.file.len % PAGE_SIZE = 0
    /\ Pager_num_pages(pager_state.pager) * PAGE_SIZE = pager_state.pager.file.len

\* A page was written past the end of the file, which now has three pages
\* or more.
C19_Witness ==
    /\ pager_state.call.kind = "write_page"
    /\ pager_state.call.page_index >= 2
    /\ pager_state.pager.file.len >= 3 * PAGE_SIZE
    /\ Pager_read_page(pager_state.pager, 1) = Page_new

\* C20: after write_page(i, p), read_page(i) is p and every other page
\* reads as it did; a write at index num_pages() raises num_pages() by one;
\* a file that Pager::open has created has num_pages() 0.
C20_WriteThenRead ==
    [][/\ pager_state'.call.kind = "write_page" =>
            LET i == pager_state'.call.page_index
            IN  /\ Pager_read_page(pager_state'.pager, i) = pager_state'.call.page
                /\ \A j \in (0..MaxPages) \ {i} :
                      Pager_read_page(pager_state'.pager, j)
                         = Pager_read_page(pager_state.pager, j)
                /\ i = Pager_num_pages(pager_state.pager) =>
                      Pager_num_pages(pager_state'.pager)
                         = Pager_num_pages(pager_state.pager) + 1
       /\ (pager_state'.call.kind = "open" /\ pager_state'.call.created) =>
            Pager_num_pages(pager_state'.pager) = 0]_vars

\* Page 1 was written with a page that is not zeros, behind a page 0 that
\* is not zeros either, and reads back as written.
C20_Witness ==
    /\ pager_state.call.kind = "write_page"
    /\ pager_state.call.page_index = 1
    /\ pager_state.call.page # Page_new
    /\ Pager_read_page(pager_state.pager, 0) # Page_new
    /\ Pager_read_page(pager_state.pager, 0) # pager_state.call.page
    /\ Pager_read_page(pager_state.pager, 1) = pager_state.call.page

----------------------------------------------------------------------------
(* The length of a serialized row (SpecCodec).                              *)

\* 4 for an Integer column, 1 for a Boolean, n for a Text(n), summed over
\* the columns from the i-th.
RECURSIVE SizeSum(_, _)
SizeSum(columns, i) ==
    IF i > Len(columns) THEN 0
    ELSE (CASE columns[i].data_type.kind = "Integer" -> 4
            [] columns[i].data_type.kind = "Boolean" -> 1
            [] columns[i].data_type.kind = "Text" -> columns[i].data_type.max_len)
         + SizeSum(columns, i + 1)

\* C21: for a row whose arity and field tags match the schema, serialize
\* emits exactly row_size() bytes, and row_size() is the sum of the byte
\* sizes of the columns (Integer 4, Boolean 1, Text(n) n).
C21_SerializedLength ==
    codec.pc \in {"bytes", "decoded"} =>
       /\ WellTyped(codec.row, codec.columns)
       /\ Len(codec.bytes) = row_size(codec.columns)
       /\ row_size(codec.columns) = SizeSum(codec.columns, 1)

\* A row whose Text is longer than its column was serialized into the 7
\* bytes of (INT, BOOLEAN, VARCHAR(2)).
C21_Witness ==
    /\ codec.pc = "bytes"
    /\ Len(codec.columns) = 3
    /\ codec.row[3].s = Str_abc
    /\ Len(codec.bytes) = 7

----------------------------------------------------------------------------
(* The semantics of a filter (SpecFilter).                                  *)

\* What a filter is to evaluate to: false when no column has its name;
\* else, on the field of the first column of that name, Eq is identity of
\* variant and payload, NotEq its negation, and GreaterThan and LessThan
\* the order of the integers when both sides are Integer, false otherwise.
Reference(row, filter, columns) ==
    LET named == {i \in 1..Len(columns) : columns[i].name = filter.column_name}
    IN  IF named = {} THEN FALSE
        ELSE LET a == row[CHOOSE i \in named : \A j \in named : i <= j]
                 v == filter.value
                 integers == a.tag = "Integer" /\ v.tag = "Integer"
             IN  CASE filter.operator = "Eq" -> a = v
                   [] filter.operator = "NotEq" -> a # v
                   [] filter.operator = "GreaterThan" -> integers /\ a.i > v.i
                   [] filter.operator = "LessThan" -> integers /\ a.i < v.i

\* C22: row_matches_filter is the reference semantics for every row,
\* operator and filter value: false on an unknown column whatever the
\* operator, Eq on tag and value, NotEq its negation (true across tags),
\* GreaterThan and LessThan on two Integers only.
C22_FilterIsReference ==
    codec.pc = "matched" =>
       /\ codec.matches = Reference(codec.row, codec.filter, codec.columns)
       /\ codec.filter.column_name = "total" => ~codec.matches
       /\ (codec.filter.column_name # "total" /\ codec.filter.operator = "NotEq"
             /\ codec.filter.value.tag
                  # codec.row[name_position(codec.columns,
                                            codec.filter.column_name, 1) + 1].tag)
            => codec.matches

\* The Integer column was compared for inequality with the Text '1', and
\* the row matched.
C22_Witness ==
    /\ codec.pc = "matched"
    /\ codec.filter.column_name = "id"
    /\ codec.filter.operator = "NotEq"
    /\ codec.filter.value = Field_Text(Str_1)
    /\ codec.row[1] = Field_Integer(1)
    /\ codec.matches

----------------------------------------------------------------------------
(* The counts of Delete and Update (SpecRows).                              *)

\* The rows of a table that a filter keeps, all of them when there is none.
Matching(rows, filter, columns) ==
    SelectSeq(rows, LAMBDA r : filter = None \/ Reference(r, filter[1], columns))

\* C23: a successful Update returns "Updated N rows." and a successful
\* Delete "Deleted N rows.", N being the number of rows that were live at
\* the entry of the command and matched the filter, all live rows when
\* there is no filter.
C23_CountsAreTargets ==
    [][(cmd'.kind \in {"Delete", "Update"} /\ result'.kind = "Message") =>
          LET columns == catalog.tables[cmd'.table_name]
              before == scan_rows(Pages(disk, cmd'.table_name), columns)
              N == Len(Matching(before, cmd'.filter, columns))
          IN  result'.text = << (IF cmd'.kind = "Delete" THEN "Deleted "
                                 ELSE "Updated "), N, " rows." >>]_vars

\* A Delete under a filter has removed one of three rows.
C23_Witness ==
    /\ cmd.kind = "Delete"
    /\ cmd.filter # None
    /\ result = Message(<<"Deleted ", 1, " rows.">>)
    /\ Len(Rows("users")) = 2

----------------------------------------------------------------------------
(* The bitmap and the row area (SpecAlias).                                 *)

\* The (page, slot) pairs of a heap file whose bit is set.
LiveSet(file, columns) ==
    {ps \in (0..(num_pages(file) - 1)) \X (0..(max_slots(columns) - 1)) :
        is_slot_full(read_page(file, ps[1]), ps[2])}

\* The bytes of a slot, and the row they hold.
BytesAt(file, columns, ps) ==
    Slice(read_page(file, ps[1]), get_row_offset(ps[2], row_size(columns)),
          row_size(columns))

RowOf(file, columns, ps) == deserialize(BytesAt(file, columns, ps), columns)

\* C30: for every schema of the catalog the bits of the slots 0..max_slots
\* lie in the 64 bytes of the header, and an Insert, which sets the bit of
\* its slot and writes the row bytes, makes that one slot live and changes
\* the bit of no other.
C30_BitmapApartFromRows ==
    [][(cmd'.kind = "Insert" /\ result'.kind = "Message") =>
          LET t == cmd'.table_name
              columns == catalog.tables[t]
          IN  /\ max_slots(columns) <= 8 * HEADER_SIZE
              /\ Cardinality(LiveSet(Pages(disk', t), columns))
                   = Cardinality(LiveSet(Pages(disk, t), columns)) + 1]_vars

\* Whether a filter, or none, keeps a row.
Keeps(filter, row, columns) ==
    filter = None \/ Reference(row, filter[1], columns)

\* C25: after a successful Delete with filter f no live row matches f;
\* every row that was live and did not match f is live in the same (page,
\* slot) with the same bytes; the bytes of the deleted rows are in place;
\* the number of pages is the same.
C25_DeleteFrame ==
    [][(cmd'.kind = "Delete" /\ result'.kind = "Message") =>
          LET t == cmd'.table_name
              columns == catalog.tables[t]
              f == cmd'.filter
              before == Pages(disk, t)
              after == Pages(disk', t)
          IN  /\ \A ps \in LiveSet(after, columns) :
                    ~Keeps(f, RowOf(after, columns, ps), columns)
              /\ \A ps \in LiveSet(before, columns) :
                    /\ BytesAt(after, columns, ps) = BytesAt(before, columns, ps)
                    /\ ~Keeps(f, RowOf(before, columns, ps), columns)
                          => ps \in LiveSet(after, columns)
              /\ num_pages(after) = num_pages(before)]_vars

\* The value the assignments of an Update give column i of a row: that of
\* the last assignment to the column, or the field the row has.
Assigned(assignments, columns, i, field) ==
    LET to == {k \in 1..Len(assignments) : assignments[k][1] = columns[i].name}
    IN  IF to = {} THEN field
        ELSE assignments[CHOOSE k \in to : \A j \in to : j <= k][2]

\* C26: a successful Update leaves the set of live slots as it was; every
\* row that matched the filter has each assigned column equal to the
\* assigned value and every other column unchanged; every row that did not
\* match is unchanged.
C26_UpdateFrame ==
    [][(cmd'.kind = "Update" /\ result'.kind = "Message") =>
          LET t == cmd'.table_name
              columns == catalog.tables[t]
              before == Pages(disk, t)
              after == Pages(disk', t)
          IN  /\ LiveSet(after, columns) = LiveSet(before, columns)
              /\ \A ps \in LiveSet(before, columns) :
                    LET old == RowOf(before, columns, ps)
                        new == RowOf(after, columns, ps)
                    IN  IF Keeps(cmd'.filter, old, columns)
                        THEN \A i \in 1..Len(columns) :
                                new[i] = Assigned(cmd'.assignments, columns, i, old[i])
                        ELSE new = old]_vars

\* C29: every row the executor passes to serialization, in Insert and in
\* Update, has the arity of the schema and, for every column, a field of
\* the type of the column.
C29_SerializedRowsWellTyped ==
    [][/\ (cmd'.kind = "Insert" /\ result'.kind = "Message") =>
            WellTyped(result'.text[2], catalog.tables[cmd'.table_name])
       /\ (cmd'.kind = "Update" /\ result'.kind = "Message") =>
            LET t == cmd'.table_name
                columns == catalog.tables[t]
                targets == Targets(Pages(disk, t), columns, cmd'.filter)
            IN  \A k \in 1..Len(targets) :
                   WellTyped(apply_assignments(targets[k].row, cmd'.assignments,
                                               columns).row,
                             columns)]_vars

----------------------------------------------------------------------------
(* The in-memory index (SpecRows).                                          *)

\* C27: when a Delete on a table with a primary key returns, the index of
\* its Table holds no entry under the stringified primary key (decimal,
\* true/false, or the string) of any row it deleted, and every entry of the
\* index refers to a slot that is live.
C27_DeleteDropsIndexEntries ==
    [][(cmd'.kind = "Delete" /\ result'.kind = "Message"
            /\ pk_col_idx(catalog.tables[cmd'.table_name]) >= 0) =>
          LET t == cmd'.table_name
              columns == catalog.tables[t]
              targets == Targets(Pages(disk, t), columns, cmd'.filter)
              index == Delete_index(Pages(disk, t), columns, cmd'.filter)
          IN  /\ \A k \in 1..Len(targets) :
                    pk_value(targets[k].row[pk_col_idx(columns) + 1])
                        \notin DOMAIN index
              /\ \A key \in DOMAIN index :
                    index[key] \in LiveSet(Pages(disk', t), columns)]_vars

\* The index key of the row in a slot of a table with a primary key.
KeyOf(file, columns, ps) ==
    pk_value(RowOf(file, columns, ps)[pk_col_idx(columns) + 1])

\* (page, slot) order
RefLeq(a, b) == a[1] < b[1] \/ (a[1] = b[1] /\ a[2] <= b[2])

\* C28: load_index on a table with a primary key gives an index whose keys
\* are exactly the stringified primary keys of the live rows; each key maps
\* to a live (page, slot) whose row has that key, and when several live
\* rows have the key, to the first of them in (page, slot) order.
C28_LoadedIndexIsLiveKeys ==
    \A t \in DOMAIN catalog.tables :
       LET columns == catalog.tables[t]
           file == Pages(disk, t)
           live == LiveSet(file, columns)
           index == load_index(file, columns)
       IN  pk_col_idx(columns) >= 0 =>
             /\ DOMAIN index = {KeyOf(file, columns, ps) : ps \in live}
             /\ \A key \in DOMAIN index :
                   /\ index[key] \in live
                   /\ KeyOf(file, columns, index[key]) = key
                   /\ \A ps \in live :
                         KeyOf(file, columns, ps) = key => RefLeq(index[key], ps)

\* Two live rows with the key "1" on different pages, the index entry at
\* the first.
C28_Witness ==
    /\ "users" \in DOMAIN catalog.tables
    /\ LET columns == catalog.tables["users"]
           file == Pages(disk, "users")
       IN  /\ {<<0, 0>>, <<1, 0>>} \subseteq LiveSet(file, columns)
           /\ KeyOf(file, columns, <<0, 0>>) = <<49>>
           /\ KeyOf(file, columns, <<1, 0>>) = <<49>>
           /\ load_index(file, columns)[<<49>>] = <<0, 0>>

----------------------------------------------------------------------------
(* The requests of the web front end (SpecWeb).                             *)

\* The calls of execute, in the order they were made and returned.
CallsApart(calls) ==
    \A k \in 1..Len(calls) :
       calls[k][2] = "begin" /\ k < Len(calls)
          => calls[k + 1] = <<calls[k][1], "end">>

\* The calls of one request are next to each other.
CallsInBlocks(calls) ==
    \A i, j, k \in 1..Len(calls) :
       (i < j /\ j < k /\ calls[i][1] = calls[k][1]) => calls[j][1] = calls[i][1]

\* C24: in the web front end a request holds the lock on the Database from
\* before it parses until it has answered; no two calls of execute overlap;
\* the commands of one request are not interleaved with those of another.
C24_RequestsOneAtATime ==
    /\ \A r \in DOMAIN web.requests :
          web.requests[r].pc \in Holding => web.db = r
    /\ Cardinality({r \in DOMAIN web.requests : web.requests[r].pc = "execute"}) <= 1
    /\ CallsApart(web.calls)
    /\ CallsInBlocks(web.calls)

\* Request 2 has run a command and is in its second call of execute while
\* request 1 waits in lock().
C24_Witness ==
    /\ DOMAIN web.requests = {1, 2}
    /\ web.requests[1].pc = "lock"
    /\ web.requests[2].pc = "execute"
    /\ web.requests[2].next = 2
    /\ web.db = 2

----------------------------------------------------------------------------
(* The sequence counters (SpecAgain).                                       *)

\* The counters the catalog file holds.
Persisted(c) == load_or_create(c.file).sequences

\* C31: an Insert on a table of the catalog that has an autoincrement
\* column raises the persisted counter of the table by exactly one, whether
\* it then stores a row or fails the column count or a type; from one
\* command to the next the counter of a table that stays in the catalog does
\* not decrease; and an Insert, Delete, Update or Select on a table with no
\* autoincrement column changes no counter.
C31_CounterStepsByOne ==
    [][/\ \A n \in DOMAIN catalog.tables \cap DOMAIN catalog'.tables :
             Persisted(catalog')[n] >= Persisted(catalog)[n]
       /\ (cmd'.kind \in {"Insert", "Delete", "Update", "Select"}
             /\ cmd'.table_name \in DOMAIN catalog.tables) =>
            LET t == cmd'.table_name
            IN  IF cmd'.kind = "Insert" /\ HasAuto(catalog.tables[t])
                THEN /\ Persisted(catalog')[t] = Persisted(catalog)[t] + 1
                     /\ \A n \in DOMAIN catalog.tables \ {t} :
                           Persisted(catalog')[n] = Persisted(catalog)[n]
                ELSE HasAuto(catalog.tables[t])
                     \/ Persisted(catalog') = Persisted(catalog)]_vars

\* The second Insert on the table failed the type of a field, and the
\* counter of the table is 2.
C31_Witness ==
    /\ cmd.kind = "Insert"
    /\ result.kind = "Err"
    /\ result.text[1] = "Type mismatch for column '"
    /\ cmd.table_name \in DOMAIN catalog.tables
    /\ HasAuto(catalog.tables[cmd.table_name])
    /\ inserts[cmd.table_name] = [all |-> 2, ok |-> 1]
    /\ Persisted(catalog)[cmd.table_name] = 2

----------------------------------------------------------------------------
(* The order of the page writes of a Delete or an Update (SpecSteps).       *)

\* The (page, slot) of the k-th target of the command under way.
TargetRef(k) == <<mutation.targets[k].p_idx, mutation.targets[k].s_idx>>

\* The row the assignments of an Update make of a row.
AssignedRow(assignments, columns, row) ==
    [i \in 1..Len(columns) |-> Assigned(assignments, columns, i, row[i])]

\* C32: while a Delete or an Update is under way, and when it has ended
\* with an error or with its message, its targets are the live slots of the
\* heap file it found at entry whose rows pass the filter, in ascending
\* (page, slot) order; the targets written so far are the first ones of
\* that list, each deleted or holding its assigned row; the others, and
\* every slot that is no target, are as the command found them.  A command
\* that ends with its message has left the file its one-step form leaves.
C32_WritesArePrefixOfTargets ==
    mutation.pc # "idle" =>
       LET c == mutation.command
           t == c.table_name
           columns == catalog.tables[t]
           before == mutation.before
           now == Pages(disk, t)
           n == Len(mutation.targets)
           matching == {ps \in LiveSet(before, columns) :
                           Keeps(c.filter, RowOf(before, columns, ps), columns)}
       IN  /\ {TargetRef(k) : k \in 1..n} = matching
           /\ \A j, k \in 1..n :
                 j < k => RefLeq(TargetRef(j), TargetRef(k)) /\ TargetRef(j) # TargetRef(k)
           /\ \A k \in 1..n :
                 mutation.targets[k].row = RowOf(before, columns, TargetRef(k))
           /\ mutation.written \in 0..n
           /\ \A k \in 1..n :
                 IF k <= mutation.written
                 THEN IF c.kind = "Delete"
                      THEN TargetRef(k) \notin LiveSet(now, columns)
                      ELSE /\ TargetRef(k) \in LiveSet(now, columns)
                           /\ RowOf(now, columns, TargetRef(k))
                                = AssignedRow(c.assignments, columns,
                                              RowOf(before, columns, TargetRef(k)))
                 ELSE /\ TargetRef(k) \in LiveSet(now, columns)
                      /\ BytesAt(now, columns, TargetRef(k))
                           = BytesAt(before, columns, TargetRef(k))
           /\ \A ps \in LiveSet(before, columns) \ matching :
                 /\ ps \in LiveSet(now, columns)
                 /\ BytesAt(now, columns, ps) = BytesAt(before, columns, ps)
           /\ num_pages(now) = num_pages(before)
           /\ mutation.pc = "done" =>
                 /\ mutation.written = n
                 /\ LET o == execute(catalog, [disk EXCEPT ![t] = before], c)
                    IN  /\ o.disk[t] = now
                        /\ o.result.kind = "Message"
                        /\ o.result.text[2] = n

\* A Delete of three targets on two pages failed at its second page write:
\* the first target is deleted, the second and the third are live.
C32_Witness ==
    /\ mutation.pc = "failed"
    /\ mutation.command.kind = "Delete"
    /\ result = Err(<<"io error", "write_page">>)
    /\ Len(mutation.targets) = 3
    /\ mutation.written = 1
    /\ TargetRef(1) = <<0, 0>>
    /\ TargetRef(3) = <<1, 0>>
    /\ LiveSet(Pages(disk, "users"), UsersColumns) = {<<0, 1>>, <<1, 0>>}

----------------------------------------------------------------------------
(* The order of a scan (SpecScan).                                          *)

\* The rows of the live slots of a heap file, the k-th being the row of the
\* live slot that has k live slots at or before it in (page, slot) order.
RowsInOrder(file, columns) ==
    LET live == LiveSet(file, columns)
    IN  [k \in 1..Cardinality(live) |->
            RowOf(file, columns,
                  CHOOSE ps \in live :
                     Cardinality({q \in live : RefLeq(q, ps)}) = k)]

\* A row as a slot holds it: written by serialize, read by deserialize.
Stored(row, columns) == deserialize(serialize(row, columns), columns)

\* C33: scan_rows returns the rows of the live slots in ascending (page
\* index, slot index) order, and a Select with no filter and no join
\* returns them in that order; on a table on which no Delete (and no
\* Update) has run, the k-th row of the scan is the k-th row inserted.
C33_ScanInSlotOrder ==
    /\ \A t \in DOMAIN catalog.tables :
          LET columns == catalog.tables[t]
              file == Pages(disk, t)
              h == history[t]
          IN  /\ scan_rows(file, columns) = RowsInOrder(file, columns)
              /\ h.clean =>
                    /\ Len(scan_rows(file, columns)) >= Len(h.rows)
                    /\ \A k \in 1..Len(h.rows) :
                          scan_rows(file, columns)[k] = Stored(h.rows[k], columns)
    /\ (/\ cmd.kind = "Select"
        /\ cmd.filter = None
        /\ cmd.join = None
        /\ cmd.table_name \in DOMAIN catalog.tables) =>
          LET rows == RowsInOrder(Pages(disk, cmd.table_name),
                                  catalog.tables[cmd.table_name])
          IN  IF rows = <<>>
              THEN result.kind = "Message" /\ result.text[1] = "No rows found."
              ELSE result.kind = "Data" /\ result.rows = rows

\* A Select with no filter has returned the three rows of a table of two
\* pages, into which a row was inserted after a Delete had freed slot 0 of
\* page 0: the row inserted last comes first.
C33_Witness ==
    /\ cmd.kind = "Select"
    /\ cmd.table_name = "users"
    /\ result.kind = "Data"
    /\ Len(result.rows) = 3
    /\ ~history["users"].clean
    /\ LiveSet(Pages(disk, "users"), UsersColumns) = {<<0, 0>>, <<0, 1>>, <<1, 0>>}
    /\ result.rows[1][1] = Field_Integer(1)
    /\ result.rows[2][1] = Field_Integer(2)
    /\ result.rows[3][1] = Field_Integer(2)

----------------------------------------------------------------------------
(* The index fast path of Select (SpecLookup).                              *)

\* What a full scan filtered by row_matches_filter gives a Select.
ScanAnswer(file, columns, filter) ==
    LET Keep(r) == row_matches_filter(r, filter[1], columns)
    IN  select_result(columns, SelectSeq(scan_rows(file, columns), Keep))

\* The last command was a Select on a table of the catalog that took the
\* index fast path.
FastPathDone ==
    /\ cmd.kind = "Select"
    /\ cmd.table_name \in DOMAIN catalog.tables
    /\ used_index(catalog.tables[cmd.table_name], cmd.join, cmd.filter)

\* C34: a Select answered by the index fast path returns what the full
\* scan filtered by row_matches_filter with the same filter returns,
\* whatever the tag of the filter value.
C34_FastPathIsScan ==
    FastPathDone =>
       LET answer == ScanAnswer(Pages(disk, cmd.table_name),
                                catalog.tables[cmd.table_name], cmd.filter)
       IN  /\ result.kind = answer.kind
           /\ result.rows = answer.rows

\* The fast path, asked for id = '1', returned the row of id 1.
C34_Witness ==
    /\ FastPathDone
    /\ cmd.filter[1].value = Field_Text(Str_1)
    /\ result.kind = "Data"
    /\ Len(result.rows) = 1
    /\ result.rows[1][1] = Field_Integer(1)

----------------------------------------------------------------------------
(* Generated primary keys (SpecKeys).                                       *)

\* The primary keys of the live rows of a heap file.
LivePrimaryKeys(file, columns) ==
    {RowOf(file, columns, ps)[pk_col_idx(columns) + 1] : ps \in LiveSet(file, columns)}

\* C35: on a table whose autoincrement column is its primary key, the value
\* issued to an Insert that succeeds is greater than the primary key of
\* every row live in the table, so that afterwards one live row alone has
\* the issued key.
C35_IssuedKeyIsNew ==
    [][(/\ cmd'.kind = "Insert"
        /\ result'.kind = "Message"
        /\ pk_col_idx(catalog.tables[cmd'.table_name]) >= 0
        /\ pk_col_idx(catalog.tables[cmd'.table_name])
             = auto_position(catalog.tables[cmd'.table_name], 1)) =>
          LET t == cmd'.table_name
              columns == catalog.tables[t]
              issued == result'.text[2][pk_col_idx(columns) + 1]
          IN  /\ \A key \in LivePrimaryKeys(Pages(disk, t), columns) : key.i < issued.i
              /\ Cardinality({ps \in LiveSet(Pages(disk', t), columns) :
                      RowOf(Pages(disk', t), columns, ps)[pk_col_idx(columns) + 1]
                         = issued}) = 1]_vars

\* An Insert was issued the key 2 and the table has two live rows of key 2.
C35_Witness ==
    /\ cmd.kind = "Insert"
    /\ cmd.table_name = "ledger"
    /\ result.kind = "Message"
    /\ result.text[2][2] = Field_Integer(2)
    /\ Cardinality({ps \in LiveSet(Pages(disk, "ledger"), LedgerColumns) :
           RowOf(Pages(disk, "ledger"), LedgerColumns, ps)[2] = Field_Integer(2)}) = 2

----------------------------------------------------------------------------
(* The WHERE clause through parse_sql (SpecParse).                          *)

\* The statement of a text of one UPDATE or one SELECT that has a WHERE
\* clause; its clause.
OneWhere ==
    /\ codec.pc = "parsed"
    /\ codec.text.ok
    /\ Len(codec.text.ast) = 1
    /\ \/ /\ codec.text.ast[1].kind = "Update"
          /\ codec.text.ast[1].selection # None
       \/ /\ codec.text.ast[1].kind = "Query"
          /\ codec.text.ast[1].body.kind = "Select"
          /\ codec.text.ast[1].body.selection # None

WhereOf(statement) ==
    IF statement.kind = "Update" THEN statement.selection[1]
    ELSE statement.body.selection[1]

\* `<col> <op> <literal>` with op one of =, !=, >, <
SingleComparison(e) ==
    /\ e.kind = "BinaryOp"
    /\ e.left.kind \in {"Identifier", "CompoundIdentifier"}
    /\ e.op \in {"Eq", "NotEq", "Gt", "Lt"}
    /\ e.right.kind = "Value"

\* C36: parse_sql never makes a command without a filter of an UPDATE or a
\* SELECT that has a WHERE clause: when it answers with a command, the
\* command carries a filter and the clause is one comparison of a column
\* with a literal by =, !=, > or <; every other clause is an error.
C36_WhereNeverDropped ==
    (OneWhere /\ codec.out.ok) =>
        /\ Len(codec.out.commands) = 1
        /\ codec.out.commands[1].filter # None
        /\ SingleComparison(WhereOf(codec.text.ast[1]))

\* `UPDATE users SET name = 'a' WHERE (id = 1)` parsed to an Update of every
\* row.
C36_Witness ==
    /\ OneWhere
    /\ codec.text.ast[1] = Statement_Update("users", SetName, Some(Expr_Nested(IdIsOne)))
    /\ codec.out = ParseOk(<< Cmd_Update("users", << <<"name", Field_Text(Str_a)>> >>, None) >>)

====
